---- MODULE Spec2Model ----
(***************************************************************************)
(* Model of src/lib/hexCipher.ts of sepolia-ethers: the keyed XOR byte     *)
(* transform and its text<->hex and hex<->hex wrappers.                    *)
(*                                                                         *)
(* A JavaScript string is a sequence of UTF-16 code units (naturals), a    *)
(* Uint8Array is a sequence of bytes 0..255.  JavaScript indexes from 0,   *)
(* TLA+ sequences from 1: element i of the code is element i + 1 here.     *)
(* A call that can throw returns a record [ok, val, err].                  *)
(***************************************************************************)
EXTENDS Integers, Sequences, FiniteSets, TLC

VARIABLES
  op, arg, key, result,  \* the call in progress and its outcome
  decoderState,          \* the state the module's TextDecoder keeps
  memo, failedSince,     \* an earlier call, and whether a call failed since
  \* App (ethers): React state
  provider, address, balance, status, error,
  isSending, isFetchingTx,
  transferMessage, cipherKey, lookupHash, txHash, txInfo, txDecrypted,
  isConnecting, isReading, chainId, latestBlock, targetChain,
  listenerAddress,       \* the address the registered listeners closed over
  \* App (ethers): handler invocations waiting on a promise
  sendCall, fetchCall, connectCall, syncPending, balanceCalls, readCalls,
  balanceSettled, lastRead,  \* how the last getBalance and read ended
  \* the chain: the transactions it holds
  chainTxs,
  \* App (wagmi, red envelopes): wagmi's account and write state, React
  \* state, the loadEnvelopeDetail and handleClaim invocations waiting on
  \* a promise, and the write requests made so far
  isConnected, isWriting, isWaitingReceipt, claimId, detail, loadCalls,
  claimCalls, writes,
  reclaimCalls,          \* handleReclaim invocations waiting on a promise
  formAmount, formSlots, formEqual,
  createCalls,           \* handleCreate invocations waiting on a promise
  toasts,
  timers,                \* the timeouts pushToast has set, oldest first
  statusShown, errorShown,  \* the values the toast effects last ran for
  lastToast              \* the toast pushToast was last called with

cipherVars == <<op, arg, key, result, decoderState>>

callVars == <<op, arg, key, result>>

historyVars == <<memo, failedSince>>

walletVars == <<provider, address, balance>>

txVars ==
  <<isSending, isFetchingTx, transferMessage, cipherKey, lookupHash, txHash,
    txInfo, txDecrypted, sendCall, fetchCall, chainTxs>>

connectionVars ==
  <<isConnecting, isReading, chainId, latestBlock, targetChain,
    listenerAddress, connectCall, syncPending, balanceCalls, readCalls,
    balanceSettled, lastRead>>

createVars == <<formAmount, formSlots, formEqual, createCalls>>

toastVars == <<toasts, timers, statusShown, errorShown, lastToast>>

envelopeVars ==
  <<isConnected, isWriting, isWaitingReceipt, claimId, detail, loadCalls,
    claimCalls, writes, reclaimCalls, createVars, toastVars>>

appVars == <<walletVars, connectionVars, status, error, txVars, envelopeVars>>

vars == <<cipherVars, historyVars, appVars>>

(***************************************************************************)
(* Bounds of the explored inputs.                                          *)
(***************************************************************************)
MaxTextLen == 3
MaxKeyLen == 2
MaxHexDigits == 4
MaxBytesLen == 4

SeqsUpTo(S, n) == UNION {[1..m -> S] : m \in 0..n}

(***************************************************************************)
(* Outcomes: a returned value, or a thrown Error.  The messages of the     *)
(* source are named by tags:                                               *)
(*   "InvalidHex"  hexCipher.ts:8    "OddLength"  hexCipher.ts:12           *)
(*   "EmptyKey"    hexCipher.ts:32   "EmptyText"  hexCipher.ts:54           *)
(*   "TypeError"   thrown by a fatal TextDecoder on malformed input        *)
(***************************************************************************)
Ok(v) == [ok |-> TRUE, val |-> v, err |-> "none"]

Throw(e) == [ok |-> FALSE, val |-> <<>>, err |-> e]

(***************************************************************************)
(* JavaScript's bitwise operators on non-negative integers.                *)
(***************************************************************************)
RECURSIVE BitXor(_, _)
BitXor(a, b) ==
  IF a = 0 /\ b = 0 THEN 0
  ELSE (((a % 2) + (b % 2)) % 2) + 2 * BitXor(a \div 2, b \div 2)

RECURSIVE BitAnd(_, _)
BitAnd(a, b) ==
  IF a = 0 \/ b = 0 THEN 0
  ELSE (a % 2) * (b % 2) + 2 * BitAnd(a \div 2, b \div 2)

(***************************************************************************)
(* TextEncoder.encode: UTF-8 of a UTF-16 string.  A surrogate pair is one  *)
(* code point (4 bytes); a lone surrogate is replaced by U+FFFD.           *)
(***************************************************************************)
IsHighSurrogate(u) == u >= 55296 /\ u <= 56319

IsLowSurrogate(u) == u >= 56320 /\ u <= 57343

Utf8Bytes(cp) ==
  IF cp < 128 THEN <<cp>>
  ELSE IF cp < 2048 THEN <<192 + (cp \div 64), 128 + (cp % 64)>>
  ELSE IF cp < 65536
    THEN <<224 + (cp \div 4096), 128 + ((cp \div 64) % 64), 128 + (cp % 64)>>
  ELSE <<240 + (cp \div 262144), 128 + ((cp \div 4096) % 64),
         128 + ((cp \div 64) % 64), 128 + (cp % 64)>>

RECURSIVE encode(_)
encode(s) ==
  IF s = <<>> THEN <<>>
  ELSE LET u == Head(s) IN
    IF IsHighSurrogate(u) /\ Len(s) >= 2 /\ IsLowSurrogate(s[2])
      THEN Utf8Bytes(65536 + (u - 55296) * 1024 + (s[2] - 56320))
             \o encode(Tail(Tail(s)))
    ELSE IF IsHighSurrogate(u) \/ IsLowSurrogate(u)
      THEN Utf8Bytes(65533) \o encode(Tail(s))
    ELSE Utf8Bytes(u) \o encode(Tail(s))

(***************************************************************************)
(* TextDecoder.decode: the WHATWG UTF-8 decoder.  utf8Decode yields the    *)
(* decoded code points, with -1 where the decoder signals an error (an     *)
(* invalid lead byte, a byte outside the continuation range -- that byte   *)
(* is then read again -- or a sequence cut short by the end of input).     *)
(***************************************************************************)
RECURSIVE utf8Decode(_, _, _, _, _, _, _)
utf8Decode(bytes, i, cp, needed, seen, lower, upper) ==
  IF i > Len(bytes) THEN (IF needed # 0 THEN <<-1>> ELSE <<>>)
  ELSE LET b == bytes[i] IN
    IF needed = 0 THEN
      IF b <= 127
        THEN <<b>> \o utf8Decode(bytes, i + 1, 0, 0, 0, 128, 191)
      ELSE IF b >= 194 /\ b <= 223
        THEN utf8Decode(bytes, i + 1, b - 192, 1, 0, 128, 191)
      ELSE IF b >= 224 /\ b <= 239
        THEN utf8Decode(bytes, i + 1, b - 224, 2, 0,
                        IF b = 224 THEN 160 ELSE 128,
                        IF b = 237 THEN 159 ELSE 191)
      ELSE IF b >= 240 /\ b <= 244
        THEN utf8Decode(bytes, i + 1, b - 240, 3, 0,
                        IF b = 240 THEN 144 ELSE 128,
                        IF b = 244 THEN 143 ELSE 191)
      ELSE <<-1>> \o utf8Decode(bytes, i + 1, 0, 0, 0, 128, 191)
    ELSE IF b < lower \/ b > upper
      THEN <<-1>> \o utf8Decode(bytes, i, 0, 0, 0, 128, 191)
    ELSE IF seen + 1 = needed
      THEN <<cp * 64 + (b - 128)>>
             \o utf8Decode(bytes, i + 1, 0, 0, 0, 128, 191)
    ELSE utf8Decode(bytes, i + 1, cp * 64 + (b - 128), needed, seen + 1,
                    128, 191)

\* A code point as UTF-16 code units; the error marker becomes U+FFFD.
Utf16Units(cp) ==
  IF cp = -1 THEN <<65533>>
  ELSE IF cp < 65536 THEN <<cp>>
  ELSE <<55296 + ((cp - 65536) \div 1024), 56320 + ((cp - 65536) % 1024)>>

RECURSIVE Utf16String(_)
Utf16String(cps) ==
  IF cps = <<>> THEN <<>> ELSE Utf16Units(Head(cps)) \o Utf16String(Tail(cps))

\* The bytes at the end of the input that begin a sequence the input does
\* not finish: the decoder's state when it is not flushed.
RECURSIVE utf8Pending(_, _, _, _, _, _)
utf8Pending(bytes, i, needed, seen, lower, upper) ==
  IF i > Len(bytes) THEN (IF needed # 0 THEN seen + 1 ELSE 0)
  ELSE LET b == bytes[i] IN
    IF needed = 0 THEN
      IF b >= 194 /\ b <= 223
        THEN utf8Pending(bytes, i + 1, 1, 0, 128, 191)
      ELSE IF b >= 224 /\ b <= 239
        THEN utf8Pending(bytes, i + 1, 2, 0,
                         IF b = 224 THEN 160 ELSE 128,
                         IF b = 237 THEN 159 ELSE 191)
      ELSE IF b >= 240 /\ b <= 244
        THEN utf8Pending(bytes, i + 1, 3, 0,
                         IF b = 240 THEN 144 ELSE 128,
                         IF b = 244 THEN 143 ELSE 191)
      ELSE utf8Pending(bytes, i + 1, 0, 0, 128, 191)
    ELSE IF b < lower \/ b > upper
      THEN utf8Pending(bytes, i, 0, 0, 128, 191)
    ELSE IF seen + 1 = needed
      THEN utf8Pending(bytes, i + 1, 0, 0, 128, 191)
    ELSE utf8Pending(bytes, i + 1, needed, seen + 1, 128, 191)

\* new TextDecoder(): label "utf-8", fatal false, ignoreBOM false.
decoderFatal == [fatal |-> TRUE, ignoreBOM |-> FALSE]

decoder == [fatal |-> FALSE, ignoreBOM |-> FALSE]

\* The options of decoder.decode(plainBytes): none are passed, so stream is
\* false.
decodeOptionsStream == [stream |-> TRUE]

decodeOptions == [stream |-> FALSE]

\* The state of a TextDecoder between two calls of decode: whether the last
\* call asked not to flush (stream), and then the bytes it holds back and
\* whether it has passed the place of the byte order mark.  A call that
\* follows a flushed one starts from FreshDecoder.
FreshDecoder == [doNotFlush |-> FALSE, pending |-> <<>>, bomSeen |-> FALSE]

\* What decode reads: the held bytes, then the input.
decodeInput(bytes) ==
  (IF decoderState.doNotFlush THEN decoderState.pending ELSE <<>>) \o bytes

\* How many bytes at the end of what it reads decode holds back.
decodeHeld(bytes) ==
  IF decodeOptions.stream
    THEN utf8Pending(decodeInput(bytes), 1, 0, 0, 128, 191)
    ELSE 0

\* decoder.decode(bytes): with ignoreBOM false a leading U+FEFF is dropped;
\* an error throws when fatal, and is replaced by U+FFFD otherwise.
decode(bytes) ==
  LET input == decodeInput(bytes)
      cps == utf8Decode(SubSeq(input, 1, Len(input) - decodeHeld(bytes)),
                        1, 0, 0, 0, 128, 191)
      bomSeen == decoderState.doNotFlush /\ decoderState.bomSeen
      noBom == IF ~decoder.ignoreBOM /\ ~bomSeen /\ cps # <<>>
                    /\ Head(cps) = 65279
               THEN Tail(cps) ELSE cps
  IN IF decoder.fatal /\ (\E j \in 1..Len(cps) : cps[j] = -1)
       THEN Throw("TypeError")
       ELSE Ok(Utf16String(noBom))

\* The decoder's state after decoder.decode(bytes).
decoderAfterDecode(bytes) ==
  LET input == decodeInput(bytes)
      held == decodeHeld(bytes)
  IN IF ~decodeOptions.stream THEN FreshDecoder
     ELSE [doNotFlush |-> TRUE,
           pending |-> SubSeq(input, Len(input) - held + 1, Len(input)),
           bomSeen |-> (decoderState.doNotFlush /\ decoderState.bomSeen)
                         \/ Len(input) > held]

(***************************************************************************)
(* String helpers of the JavaScript runtime.                               *)
(***************************************************************************)
\* WhiteSpace and LineTerminator code units, as removed by String.trim.
IsWhiteSpace(u) ==
  u \in {9, 10, 11, 12, 13, 32, 160, 5760, 8232, 8233, 8239, 8287, 12288, 65279}
  \/ (u >= 8192 /\ u <= 8202)

\* key.trim() is the empty string
TrimIsEmpty(s) == \A i \in 1..Len(s) : IsWhiteSpace(s[i])

IsHexDigit(c) ==
  (c >= 48 /\ c <= 57) \/ (c >= 65 /\ c <= 70) \/ (c >= 97 /\ c <= 102)

startsWith0x(hex) == Len(hex) >= 2 /\ hex[1] = 48 /\ hex[2] = 120

\* String.toLowerCase on the ASCII letters (the only letters it meets here).
toLowerCase(s) ==
  [i \in 1..Len(s) |-> IF s[i] >= 65 /\ s[i] <= 90 THEN s[i] + 32 ELSE s[i]]

HexDigitValue(c) ==
  IF c >= 48 /\ c <= 57 THEN c - 48
  ELSE IF c >= 65 /\ c <= 70 THEN c - 55
  ELSE c - 87

\* parseInt(s, 16) of a two-character substring: the longest prefix of hex
\* digits; NaN (stored in a Uint8Array as 0) when there is none.
parseInt16(s) ==
  IF Len(s) = 0 \/ ~IsHexDigit(s[1]) THEN 0
  ELSE IF Len(s) = 1 \/ ~IsHexDigit(s[2]) THEN HexDigitValue(s[1])
  ELSE 16 * HexDigitValue(s[1]) + HexDigitValue(s[2])

HexDigitChar(d) == IF d < 10 THEN 48 + d ELSE 87 + d

\* Number.prototype.toString(16)
RECURSIVE toString16(_)
toString16(n) ==
  IF n < 16 THEN <<HexDigitChar(n)>>
  ELSE toString16(n \div 16) \o <<HexDigitChar(n % 16)>>

padStart(s, n, c) ==
  IF Len(s) >= n THEN s ELSE [i \in 1..(n - Len(s)) |-> c] \o s

(***************************************************************************)
(* ethers v6 isHexString(value, length): value matches /^0x[0-9A-Fa-f]*$/; *)
(* a length of true also asks for an even number of digits; an options     *)
(* object in that position is neither a number nor true and asks nothing.  *)
(***************************************************************************)
isHexString(value, length) ==
  IF ~(startsWith0x(value) /\ \A i \in 3..Len(value) : IsHexDigit(value[i]))
    THEN FALSE
  ELSE IF length = "true" /\ Len(value) % 2 # 0 THEN FALSE
  ELSE TRUE

(***************************************************************************)
(* hexCipher.ts, text version (lines 1-67).                                *)
(***************************************************************************)
\* Mutant: isHexString is called without its length argument and the
\* parity of the digits is not tested.
normalizeHexAnyParity(hex) ==
  IF ~isHexString(hex, "options") THEN Throw("InvalidHex")
  ELSE LET stripped == IF startsWith0x(hex) THEN SubSeq(hex, 3, Len(hex))
                       ELSE hex
       IN Ok(toLowerCase(stripped))

normalizeHex(hex) ==
  IF ~isHexString(hex, "true") THEN Throw("InvalidHex")
  ELSE LET stripped == IF startsWith0x(hex) THEN SubSeq(hex, 3, Len(hex))
                       ELSE hex
       IN IF Len(stripped) % 2 # 0 THEN Throw("OddLength")
          ELSE Ok(toLowerCase(stripped))

\* bytes[i / 2] = parseInt(hex.substring(i, i + 2), 16) for i = 0, 2, ...
\* The array has floor(hex.length / 2) elements; a store past its end is
\* dropped.
hexToBytes(hex) ==
  [j \in 1..(Len(hex) \div 2) |-> parseInt16(SubSeq(hex, 2 * j - 1, 2 * j))]

RECURSIVE join(_)
join(parts) == IF parts = <<>> THEN <<>> ELSE Head(parts) \o join(Tail(parts))

\* Mutant: the 0x prefix is left out.
bytesToHexBare(bytes) ==
  join([j \in 1..Len(bytes) |-> padStart(toString16(bytes[j]), 2, 48)])

\* Mutant: the digits of a byte are not padded to two.
bytesToHexUnpadded(bytes) ==
  LET hex == join([j \in 1..Len(bytes) |-> toString16(bytes[j])])
  IN <<48, 120>> \o hex

bytesToHex(bytes) ==
  LET hex == join([j \in 1..Len(bytes) |->
                     padStart(toString16(bytes[j]), 2, 48)])
  IN <<48, 120>> \o hex

\* String.prototype.trim
RECURSIVE trimStart(_)
trimStart(s) ==
  IF s # <<>> /\ IsWhiteSpace(Head(s)) THEN trimStart(Tail(s)) ELSE s

RECURSIVE trimEnd(_)
trimEnd(s) ==
  IF s # <<>> /\ IsWhiteSpace(s[Len(s)])
    THEN trimEnd(SubSeq(s, 1, Len(s) - 1)) ELSE s

trim(s) == trimEnd(trimStart(s))

\* Mutant: the trimmed key is what is encoded.
buildKeyTrimmed(k) ==
  IF TrimIsEmpty(k) THEN Throw("EmptyKey") ELSE Ok(encode(trim(k)))

\* Mutant: the key is tested without trimming.
buildKeyUntrimmed(k) ==
  IF k = <<>> THEN Throw("EmptyKey") ELSE Ok(encode(k))

buildKey(k) ==
  IF TrimIsEmpty(k) THEN Throw("EmptyKey") ELSE Ok(encode(k))

\* Mutant: the key byte is added instead of xored.
mixByteAdd(byte, keyByte, index) ==
  LET positionSalt == BitAnd(index * 31 + 165, 255)
  IN BitXor(byte + keyByte, positionSalt)

\* Mutant: the salt is taken one position late.
mixByteNextIndex(byte, keyByte, index) ==
  LET positionSalt == BitAnd((index + 1) * 31 + 165, 255)
  IN BitXor(BitXor(byte, keyByte), positionSalt)

\* Mutant: the salt is added instead of xored.
mixByteSaltAdded(byte, keyByte, index) ==
  LET positionSalt == BitAnd(index * 31 + 165, 255)
  IN BitXor(byte, keyByte) + positionSalt

mixByte(byte, keyByte, index) ==
  LET positionSalt == BitAnd(index * 31 + 165, 255)
  IN BitXor(BitXor(byte, keyByte), positionSalt)

\* keyBytes[i % keyBytes.length]; with an empty key the index is NaN, the
\* element undefined, and undefined is 0 under ^.
keyByteAt(keyBytes, i) ==
  IF Len(keyBytes) = 0 THEN 0 ELSE keyBytes[(i % Len(keyBytes)) + 1]

\* The for loop of applyCipher from index i on; a Uint8Array element keeps
\* the low 8 bits of what is stored.
RECURSIVE applyCipherLoop(_, _, _, _)
applyCipherLoop(input, keyBytes, i, output) ==
  IF ~(i < Len(input)) THEN output
  ELSE applyCipherLoop(input, keyBytes, i + 1,
         [output EXCEPT ![i + 1] =
            mixByte(input[i + 1], keyByteAt(keyBytes, i), i) % 256])

\* Mutant: the output array is sized by the key.
applyCipherKeySized(input, keyBytes) ==
  LET output == [j \in 1..Len(keyBytes) |-> 0]
  IN applyCipherLoop(input, keyBytes, 0, output)

applyCipher(input, keyBytes) ==
  LET output == [j \in 1..Len(input) |-> 0]
  IN applyCipherLoop(input, keyBytes, 0, output)

encryptTextToHex(text, k) ==
  IF text = <<>> THEN Throw("EmptyText")
  ELSE LET inputBytes == encode(text)
           keyBytes == buildKey(k)
       IN IF ~keyBytes.ok THEN keyBytes
          ELSE Ok(bytesToHex(applyCipher(inputBytes, keyBytes.val)))

decryptHexToText(cipherHex, k) ==
  LET normalized == normalizeHex(cipherHex) IN
  IF ~normalized.ok THEN normalized
  ELSE LET inputBytes == hexToBytes(normalized.val)
           keyBytes == buildKey(k)
       IN IF ~keyBytes.ok THEN keyBytes
          ELSE decode(applyCipher(inputBytes, keyBytes.val))

\* The decoder's state after decryptHexToText(cipherHex, k): decode is
\* reached when neither normalizeHex nor buildKey throws.
decoderAfterDecryptHexToText(cipherHex, k) ==
  LET normalized == normalizeHex(cipherHex) IN
  IF ~normalized.ok \/ ~buildKey(k).ok THEN decoderState
  ELSE decoderAfterDecode(applyCipher(hexToBytes(normalized.val),
                                      buildKey(k).val))

(***************************************************************************)
(* hexCipher.ts, hex version (lines 69-136): its own normalizeHex, and the *)
(* loop written out in encryptHex and in decryptHex.                       *)
(***************************************************************************)
normalizeHex2(hex) ==
  IF ~isHexString(hex, "options") THEN Throw("InvalidHex")
  ELSE LET stripped == IF startsWith0x(hex) THEN SubSeq(hex, 3, Len(hex))
                       ELSE hex
       IN IF Len(stripped) % 2 # 0 THEN Throw("OddLength")
          ELSE Ok(toLowerCase(stripped))

RECURSIVE encryptHexLoop(_, _, _, _)
encryptHexLoop(inputBytes, keyBytes, i, output) ==
  IF ~(i < Len(inputBytes)) THEN output
  ELSE encryptHexLoop(inputBytes, keyBytes, i + 1,
         [output EXCEPT ![i + 1] =
            mixByte(inputBytes[i + 1], keyByteAt(keyBytes, i), i) % 256])

encryptHex(hex, k) ==
  LET normalized == normalizeHex2(hex) IN
  IF ~normalized.ok THEN normalized
  ELSE LET inputBytes == hexToBytes(normalized.val)
           keyBytes == buildKey(k)
           output == [j \in 1..Len(inputBytes) |-> 0]
       IN IF ~keyBytes.ok THEN keyBytes
          ELSE Ok(bytesToHex(encryptHexLoop(inputBytes, keyBytes.val, 0, output)))

\* Mutant: decryption undoes the salt of the next position.
RECURSIVE decryptHexLoopShifted(_, _, _, _)
decryptHexLoopShifted(inputBytes, keyBytes, i, output) ==
  IF ~(i < Len(inputBytes)) THEN output
  ELSE decryptHexLoopShifted(inputBytes, keyBytes, i + 1,
         [output EXCEPT ![i + 1] =
            mixByte(inputBytes[i + 1], keyByteAt(keyBytes, i), i + 1) % 256])

RECURSIVE decryptHexLoop(_, _, _, _)
decryptHexLoop(inputBytes, keyBytes, i, output) ==
  IF ~(i < Len(inputBytes)) THEN output
  ELSE decryptHexLoop(inputBytes, keyBytes, i + 1,
         [output EXCEPT ![i + 1] =
            mixByte(inputBytes[i + 1], keyByteAt(keyBytes, i), i) % 256])

decryptHex(cipherHex, k) ==
  LET normalized == normalizeHex2(cipherHex) IN
  IF ~normalized.ok THEN normalized
  ELSE LET inputBytes == hexToBytes(normalized.val)
           keyBytes == buildKey(k)
           output == [j \in 1..Len(inputBytes) |-> 0]
       IN IF ~keyBytes.ok THEN keyBytes
          ELSE Ok(bytesToHex(decryptHexLoop(inputBytes, keyBytes.val, 0, output)))

(***************************************************************************)
(* Inputs.  Strings are drawn from small alphabets of code units that      *)
(* cover the cases of the encodings, plus the demo values of App.tsx.      *)
(***************************************************************************)
\* 'A', e-acute (2 UTF-8 bytes), U+FEFF (3 bytes, the byte order mark),
\* U+D83D U+DE00 (a surrogate pair when adjacent in this order, 4 bytes).
TextAlphabet == {65, 233, 65279, 55357, 56832}

\* "Hello, Sepolia!"
HelloSepolia ==
  <<72, 101, 108, 108, 111, 44, 32, 83, 101, 112, 111, 108, 105, 97, 33>>

Texts == SeqsUpTo(TextAlphabet, MaxTextLen) \cup {HelloSepolia}

\* 'k' and the space
KeyAlphabet == {107, 32}

\* "sepolia-demo-key"
DemoKey ==
  <<115, 101, 112, 111, 108, 105, 97, 45, 100, 101, 109, 111, 45, 107, 101, 121>>

Keys == SeqsUpTo(KeyAlphabet, MaxKeyLen) \cup {DemoKey, <<65279>>, <<233>>}

\* '4', 'e', 'E' and the non-digit 'z'
HexDigitAlphabet == {52, 101, 69, 122}

\* no prefix, "0x", "0X"
HexPrefixes == {<<>>, <<48, 120>>, <<48, 88>>}

\* "0x48656c6c6f2c205365706f6c696121"
DemoHex ==
  <<48, 120, 52, 56, 54, 53, 54, 99, 54, 99, 54, 102, 50, 99, 50, 48, 53, 51,
    54, 53, 55, 48, 54, 102, 54, 99, 54, 57, 54, 49, 50, 49>>

HexInputs ==
  {p \o d : p \in HexPrefixes, d \in SeqsUpTo(HexDigitAlphabet, MaxHexDigits)}
  \cup {DemoHex}

ByteAlphabet == {0, 65, 165, 255}

\* An input of 16 bytes.
Bytes16 == [j \in 1..16 |-> (j * 37) % 256]

ByteInputs == SeqsUpTo(ByteAlphabet, MaxBytesLen) \cup {Bytes16}

KeyByteInputs == SeqsUpTo({107, 255}, MaxKeyLen)

(***************************************************************************)
(* The state: the call in progress (op is "none" between calls), its two   *)
(* arguments and its outcome.  A call is made when no call is in progress  *)
(* (the code is synchronous, one call runs to its end before the next      *)
(* begins, whoever the callers are) and Return hands its outcome to the    *)
(* caller.  What the module keeps between calls is its TextEncoder, which  *)
(* has no state, and its TextDecoder.                                      *)
(***************************************************************************)
NoMemo == [op |-> "none", arg |-> <<>>, key |-> <<>>, result |-> Ok(<<>>)]

\* The red envelope App after its first render: no wallet connected.
InitEnvelopeApp ==
  /\ isConnected = FALSE
  /\ isWriting = FALSE
  /\ isWaitingReceipt = FALSE
  /\ claimId = <<>>
  /\ detail = <<>>
  /\ loadCalls = <<>>
  /\ claimCalls = <<>>
  /\ writes = {}
  /\ reclaimCalls = <<>>
  /\ formAmount = <<48, 46, 49>>
  /\ formSlots = <<51>>
  /\ formEqual = TRUE
  /\ createCalls = <<>>
  /\ toasts = <<>>
  /\ timers = <<>>
  /\ statusShown = ""
  /\ errorShown = ""
  /\ lastToast = <<>>

InitModule ==
  /\ op = "none"
  /\ arg = <<>>
  /\ key = <<>>
  /\ result = Ok(<<>>)
  /\ decoderState = FreshDecoder
  /\ memo = NoMemo
  /\ failedSince = FALSE

\* A value of type Nullable<T>: null, or a value.
Null == <<>>

Some(x) == <<x>>

\* 'Encrypted hello on-chain'
TransferMessageDefault ==
  <<69, 110, 99, 114, 121, 112, 116, 101, 100, 32, 104, 101, 108, 108, 111,
    32, 111, 110, 45, 99, 104, 97, 105, 110>>

IdleSend ==
  [pc |-> "idle", message |-> <<>>, key |-> <<>>, address |-> <<>>, tx |-> 0]

IdleFetch == [pc |-> "idle", hash |-> <<>>, key |-> <<>>]

\* SUPPORTED_NETWORKS: the chain ids.
Sepolia == 11155111

Mainnet == 1

\* The state of the ethers App that the red envelope App has no part in.
InitAppOnly ==
  /\ provider = TRUE
  /\ balance = Null
  /\ isSending = FALSE
  /\ isFetchingTx = FALSE
  /\ transferMessage = TransferMessageDefault
  /\ cipherKey = DemoKey
  /\ lookupHash = <<>>
  /\ txHash = <<>>
  /\ txInfo = Null
  /\ txDecrypted = <<>>
  /\ sendCall = IdleSend
  /\ fetchCall = IdleFetch
  /\ syncPending = TRUE
  /\ isConnecting = FALSE
  /\ isReading = FALSE
  /\ latestBlock = Null
  /\ targetChain = Sepolia
  /\ listenerAddress = <<>>
  /\ connectCall = "idle"
  /\ balanceCalls = <<>>
  /\ readCalls = <<>>
  /\ balanceSettled = "none"
  /\ lastRead = "none"

\* The App after its first render and mount effects, in a browser that has
\* a wallet (window.ethereum): no account connected yet, syncConnection
\* waiting for provider.listAccounts().
InitApp ==
  /\ InitAppOnly
  /\ address = <<>>
  /\ status = "wallet ready"
  /\ error = ""
  /\ chainId = Null

\* The accounts of the wallet, as address texts ("0xa", "0xb"), and what
\* the chain holds for each.  Amounts are counted in units of 10^15 wei.
Accounts == {<<48, 120, 97>>, <<48, 120, 98>>}

FirstAccount == <<48, 120, 97>>

balanceOf(account) == IF account = FirstAccount THEN 1500 ELSE 20

\* The decimal digits of n.
RECURSIVE toString10(_)
toString10(n) ==
  IF n < 10 THEN <<48 + n>> ELSE toString10(n \div 10) \o <<48 + (n % 10)>>

RECURSIVE stripTrailingZeros(_)
stripTrailingZeros(digits) ==
  IF Len(digits) > 1 /\ digits[Len(digits)] = 48
    THEN stripTrailingZeros(SubSeq(digits, 1, Len(digits) - 1))
    ELSE digits

\* Decimal places of an amount: 18 for wei, 3 in the unit used here.
EtherDecimals == 3

\* formatEther(value): the whole part, a point, and the fraction without
\* its trailing zeros (one digit at least).
formatEther(value) ==
  LET whole == value \div (10 ^ EtherDecimals)
      fraction == value % (10 ^ EtherDecimals)
  IN toString10(whole) \o <<46>>
       \o stripTrailingZeros(padStart(toString10(fraction), EtherDecimals, 48))

\* The App once connectWallet has ended for the first account.
InitConnected ==
  /\ provider = TRUE
  /\ address = FirstAccount
  /\ balance = Some(formatEther(balanceOf(FirstAccount)))
  /\ status = "wallet connected"
  /\ error = ""
  /\ isSending = FALSE
  /\ isFetchingTx = FALSE
  /\ transferMessage = TransferMessageDefault
  /\ cipherKey = DemoKey
  /\ lookupHash = <<>>
  /\ txHash = <<>>
  /\ txInfo = Null
  /\ txDecrypted = <<>>
  /\ sendCall = IdleSend
  /\ fetchCall = IdleFetch
  /\ chainId = Some(Sepolia)
  /\ latestBlock = Some(100)
  /\ syncPending = FALSE
  /\ balanceSettled = "fulfilled"
  /\ lastRead = "fulfilled"
  /\ isConnecting = FALSE
  /\ isReading = FALSE
  /\ targetChain = Sepolia
  /\ listenerAddress = <<>>
  /\ connectCall = "idle"
  /\ balanceCalls = <<>>
  /\ readCalls = <<>>

Init ==
  /\ InitModule
  /\ InitApp
  /\ InitEnvelopeApp
  /\ chainTxs = <<>>

ApplyCipherCall(input, keyBytes) ==
  /\ op' = "applyCipher"
  /\ arg' = input
  /\ key' = keyBytes
  /\ result' = Ok(applyCipher(input, keyBytes))
  /\ UNCHANGED decoderState

EncryptTextToHexCall(text, k) ==
  /\ op' = "encryptTextToHex"
  /\ arg' = text
  /\ key' = k
  /\ result' = encryptTextToHex(text, k)
  /\ UNCHANGED decoderState

DecryptHexToTextCall(cipherHex, k) ==
  /\ op' = "decryptHexToText"
  /\ arg' = cipherHex
  /\ key' = k
  /\ result' = decryptHexToText(cipherHex, k)
  /\ decoderState' = decoderAfterDecryptHexToText(cipherHex, k)

EncryptHexCall(hex, k) ==
  /\ op' = "encryptHex"
  /\ arg' = hex
  /\ key' = k
  /\ result' = encryptHex(hex, k)
  /\ UNCHANGED decoderState

DecryptHexCall(cipherHex, k) ==
  /\ op' = "decryptHex"
  /\ arg' = cipherHex
  /\ key' = k
  /\ result' = decryptHex(cipherHex, k)
  /\ UNCHANGED decoderState

CallApplyCipher ==
  /\ op = "none"
  /\ \E input \in ByteInputs, keyBytes \in KeyByteInputs :
       ApplyCipherCall(input, keyBytes)
  /\ UNCHANGED <<historyVars, appVars>>

CallEncryptTextToHex ==
  /\ op = "none"
  /\ \E text \in Texts, k \in Keys : EncryptTextToHexCall(text, k)
  /\ UNCHANGED <<historyVars, appVars>>

CallDecryptHexToText ==
  /\ op = "none"
  /\ \E cipherHex \in HexInputs, k \in Keys : DecryptHexToTextCall(cipherHex, k)
  /\ UNCHANGED <<historyVars, appVars>>

CallEncryptHex ==
  /\ op = "none"
  /\ \E hex \in HexInputs, k \in Keys : EncryptHexCall(hex, k)
  /\ UNCHANGED <<historyVars, appVars>>

CallDecryptHex ==
  /\ op = "none"
  /\ \E cipherHex \in HexInputs, k \in Keys : DecryptHexCall(cipherHex, k)
  /\ UNCHANGED <<historyVars, appVars>>

\* The call ends; the decoder keeps its state.
Return ==
  /\ op # "none"
  /\ op' = "none"
  /\ arg' = <<>>
  /\ key' = <<>>
  /\ result' = Ok(<<>>)
  /\ failedSince' = (failedSince \/ (memo # NoMemo /\ ~result.ok))
  /\ UNCHANGED <<decoderState, memo, appVars>>

Next ==
  \/ CallApplyCipher
  \/ CallEncryptTextToHex
  \/ CallDecryptHexToText
  \/ CallEncryptHex
  \/ CallDecryptHex
  \/ Return

Spec == Init /\ [][Next]_vars

(***************************************************************************)
(* Sequences of calls by several callers.  One earlier call of             *)
(* encryptTextToHex or decryptHexToText is remembered with its outcome     *)
(* (memo); any number of calls, failed or not, may follow it.              *)
(***************************************************************************)
\* "", "A", e-acute, U+FEFF "A"
CallerTexts == {<<>>, <<65>>, <<233>>, <<65279, 65>>}

\* "", "k", " k"
CallerKeys == {<<>>, <<107>>, <<32, 107>>}

\* "0x4e", "0x4e4e", "0xee", "0xeeE4", "4e", "0x4"
CallerHexInputs ==
  {<<48, 120, 52, 101>>, <<48, 120, 52, 101, 52, 101>>, <<48, 120, 101, 101>>,
   <<48, 120, 101, 101, 69, 52>>, <<52, 101>>, <<48, 120, 52>>}

CallerEncrypts ==
  /\ op = "none"
  /\ \E text \in CallerTexts, k \in CallerKeys : EncryptTextToHexCall(text, k)
  /\ UNCHANGED <<historyVars, appVars>>

CallerDecrypts ==
  /\ op = "none"
  /\ \E cipherHex \in CallerHexInputs, k \in CallerKeys :
       DecryptHexToTextCall(cipherHex, k)
  /\ UNCHANGED <<historyVars, appVars>>

\* The call ends and is the one remembered from now on.
ReturnRemembered ==
  /\ op # "none"
  /\ memo = NoMemo
  /\ memo' = [op |-> op, arg |-> arg, key |-> key, result |-> result]
  /\ failedSince' = FALSE
  /\ op' = "none"
  /\ arg' = <<>>
  /\ key' = <<>>
  /\ result' = Ok(<<>>)
  /\ UNCHANGED <<decoderState, appVars>>

NextCalls ==
  \/ CallerEncrypts
  \/ CallerDecrypts
  \/ Return
  \/ ReturnRemembered

SpecCalls == Init /\ [][NextCalls]_vars

(***************************************************************************)
(* App.tsx (ethers), lines 540-651: sending a message as transaction data  *)
(* and looking a transaction up.  A handler runs until its next await; the *)
(* promise it waits on settles in a later step, and other handlers run in  *)
(* between.  A handler reads the state of the render it was created in, so *)
(* what it read is kept with the call.                                     *)
(***************************************************************************)
MaxTxs == 2

\* The hash of the i-th transaction of the chain, as text.
HashOf(i) == <<48, 120, 48 + i>>

\* The message of the Error a function of hexCipher.ts throws.  The texts
\* of messages, here and in status and error, are given in English.
ErrorMessage(err) ==
  CASE err = "EmptyText" -> "text to encrypt is empty"
    [] err = "EmptyKey" -> "key is empty"
    [] err = "InvalidHex" -> "not a hex string"
    [] err = "OddLength" -> "hex length is odd"
    [] OTHER -> err

\* '无法用当前密钥解密'
DecryptFailedText ==
  <<26080, 27861, 29992, 24403, 21069, 23494, 38053, 35299, 23494>>

\* '0x'
EmptyData == <<48, 120>>

\* What the user types: the message (the default, "", U+FEFF "A"), the key
\* (the default, "") and the hash to look up (the hash of the first
\* transaction between blanks, the hash of no transaction).
TxMessages == {TransferMessageDefault, <<>>, <<65279, 65>>}

TxKeys == {DemoKey, <<>>}

LookupInputs == {<<32>> \o HashOf(1) \o <<32>>, HashOf(MaxTxs + 1)}

\* The message of an error that ethers or the node raises.
EthersError == "error raised by ethers"

\* Transactions of other senders: a plain transfer, and one with data.
ForeignTxs ==
  {[data |-> EmptyData, own |-> FALSE, message |-> <<>>, key |-> <<>>],
   [data |-> <<48, 120, 52, 101>>, own |-> FALSE, message |-> <<>>,
    key |-> <<>>]}

setTransferMessage ==
  /\ \E m \in TxMessages : transferMessage' = m
  /\ UNCHANGED <<cipherVars, historyVars, envelopeVars,
                 walletVars, connectionVars,
                 status, error,
                 isSending, isFetchingTx, cipherKey, lookupHash, txHash,
                 txInfo, txDecrypted, sendCall, fetchCall, chainTxs>>

setCipherKey ==
  /\ \E k \in TxKeys : cipherKey' = k
  /\ UNCHANGED <<cipherVars, historyVars, envelopeVars,
                 walletVars, connectionVars,
                 status, error,
                 isSending, isFetchingTx, transferMessage, lookupHash, txHash,
                 txInfo, txDecrypted, sendCall, fetchCall, chainTxs>>

setLookupHash ==
  /\ \E h \in LookupInputs : lookupHash' = h
  /\ UNCHANGED <<cipherVars, historyVars, envelopeVars,
                 walletVars, connectionVars,
                 status, error,
                 isSending, isFetchingTx, transferMessage, cipherKey, txHash,
                 txInfo, txDecrypted, sendCall, fetchCall, chainTxs>>

\* handleSendEncrypted up to await provider.getSigner(): getAddress throws
\* on a target address that is not an address.
handleSendEncrypted ==
  /\ provider
  /\ ~isSending
  /\ \E targetAddressValid \in BOOLEAN :
       IF targetAddressValid
         THEN /\ error' = ""
              /\ isSending' = TRUE
              /\ sendCall' = [pc |-> "getSigner", message |-> transferMessage,
                              key |-> cipherKey, address |-> address,
                              tx |-> 0]
         ELSE /\ error' = EthersError
              /\ UNCHANGED <<isSending, sendCall>>
  /\ txHash' = <<>>
  /\ UNCHANGED <<cipherVars, historyVars, envelopeVars,
                 walletVars, connectionVars,
                 status,
                 isFetchingTx, transferMessage, cipherKey, lookupHash,
                 txInfo, txDecrypted, fetchCall, chainTxs>>

\* handleSendEncrypted from the signer to await tx.wait(): the message is
\* encoded, gas is estimated (or set to 80000), and the wallet sends the
\* transaction; or the user rejects it, or getSigner or sendTransaction
\* fails.
handleSendEncryptedSigned ==
  /\ sendCall.pc = "getSigner"
  /\ LET data == encryptTextToHex(sendCall.message, sendCall.key) IN
     \E outcome \in {"sent", "rejected", "getSigner fails", "send fails"},
        gasStatus \in {"gas estimated", "gas estimate failed"} :
       IF outcome = "getSigner fails" \/ ~data.ok
         THEN /\ error' = (IF outcome = "getSigner fails" THEN EthersError
                           ELSE ErrorMessage(data.err))
              /\ isSending' = FALSE
              /\ sendCall' = IdleSend
              /\ UNCHANGED <<status, chainTxs>>
       ELSE IF outcome = "send fails"
         THEN /\ status' = gasStatus
              /\ error' = EthersError
              /\ isSending' = FALSE
              /\ sendCall' = IdleSend
              /\ UNCHANGED chainTxs
       ELSE IF outcome = "rejected"
         THEN /\ status' = "user rejected the signature"
              /\ error' = ""
              /\ isSending' = FALSE
              /\ sendCall' = IdleSend
              /\ UNCHANGED chainTxs
       ELSE /\ Len(chainTxs) < MaxTxs
            /\ chainTxs' = Append(chainTxs,
                 [data |-> data.val, own |-> TRUE,
                  message |-> sendCall.message, key |-> sendCall.key])
            /\ status' = "sent, waiting for confirmation"
            /\ sendCall' = [sendCall EXCEPT !.pc = "wait",
                                            !.tx = Len(chainTxs) + 1]
            /\ UNCHANGED <<error, isSending>>
  /\ UNCHANGED <<cipherVars, historyVars, envelopeVars,
                 walletVars, connectionVars,
                 isFetchingTx,
                 transferMessage, cipherKey, lookupHash, txHash, txInfo,
                 txDecrypted, fetchCall>>

\* handleSendEncrypted from the receipt to await refreshBalance(): the hash
\* is shown; refreshBalance returns at once when no address is connected,
\* and asks for the balance otherwise.
handleSendEncryptedMined ==
  /\ sendCall.pc = "wait"
  /\ \E mined \in BOOLEAN :
       IF ~mined
         THEN /\ error' = EthersError
              /\ isSending' = FALSE
              /\ sendCall' = IdleSend
              /\ UNCHANGED <<txHash, status>>
         ELSE /\ txHash' = HashOf(sendCall.tx)
              /\ status' = "mined"
              /\ IF ~provider \/ sendCall.address = <<>>
                   THEN /\ isSending' = FALSE
                        /\ sendCall' = IdleSend
                        /\ UNCHANGED error
                   ELSE /\ error' = ""
                        /\ sendCall' = [sendCall EXCEPT !.pc = "getBalance"]
                        /\ UNCHANGED isSending
  /\ UNCHANGED <<cipherVars, historyVars, envelopeVars,
                 walletVars, connectionVars,
                 isFetchingTx,
                 transferMessage, cipherKey, lookupHash, txInfo, txDecrypted,
                 fetchCall, chainTxs>>

\* handleSendEncrypted from the balance on: refreshBalance shows the balance
\* or the error, and the handler ends.
handleSendEncryptedRefreshed ==
  /\ sendCall.pc = "getBalance"
  /\ \E answered \in BOOLEAN :
       IF answered
         THEN /\ balance' = Some(formatEther(balanceOf(sendCall.address)))
              /\ UNCHANGED error
         ELSE /\ error' = EthersError
              /\ UNCHANGED balance
  /\ isSending' = FALSE
  /\ sendCall' = IdleSend
  /\ UNCHANGED <<cipherVars, historyVars, envelopeVars,
                 provider, address, connectionVars,
                 status, isFetchingTx, transferMessage, cipherKey, lookupHash, txHash,
                 txInfo, txDecrypted, fetchCall, chainTxs>>

\* The hash handleFetchTx looks up: lookupHash.trim() || txHash.
hashToFetch == IF trim(lookupHash) # <<>> THEN trim(lookupHash) ELSE txHash

\* handleFetchTx up to await infuraProvider.getTransaction(hash).
handleFetchTx ==
  /\ provider
  /\ ~isFetchingTx
  /\ IF hashToFetch = <<>>
       THEN /\ error' = "enter a transaction hash"
            /\ UNCHANGED <<status, isFetchingTx, txInfo, txDecrypted,
                           fetchCall>>
       ELSE /\ error' = ""
            /\ status' = ""
            /\ isFetchingTx' = TRUE
            /\ txInfo' = Null
            /\ txDecrypted' = <<>>
            /\ fetchCall' = [pc |-> "getTransaction", hash |-> hashToFetch,
                             key |-> cipherKey]
  /\ UNCHANGED <<cipherVars, historyVars, envelopeVars,
                 walletVars, connectionVars,
                 isSending,
                 transferMessage, cipherKey, lookupHash, txHash, sendCall,
                 chainTxs>>

\* handleFetchTx from the transaction on: the node answers with the
\* transaction of that hash, or with none, or the request fails.
handleFetchTxLoaded ==
  /\ fetchCall.pc = "getTransaction"
  /\ \E answered \in BOOLEAN :
       LET found == {i \in 1..Len(chainTxs) : HashOf(i) = fetchCall.hash} IN
       IF ~answered \/ found = {}
         THEN /\ error' = (IF answered THEN "transaction not found" ELSE EthersError)
              /\ UNCHANGED <<status, txInfo, txDecrypted, decoderState>>
         ELSE LET tx == chainTxs[CHOOSE i \in found : TRUE]
                  data == IF tx.data = <<>> THEN EmptyData ELSE tx.data
                  decrypted == decryptHexToText(data, fetchCall.key)
              IN /\ txInfo' = Some([hash |-> fetchCall.hash, data |-> data])
                 /\ IF data # <<>> /\ data # EmptyData
                      THEN /\ txDecrypted' = (IF decrypted.ok
                                                THEN decrypted.val
                                                ELSE DecryptFailedText)
                           /\ decoderState' =
                                decoderAfterDecryptHexToText(data,
                                                             fetchCall.key)
                      ELSE UNCHANGED <<txDecrypted, decoderState>>
                 /\ status' = "transaction read through Infura"
                 /\ UNCHANGED error
  /\ isFetchingTx' = FALSE
  /\ fetchCall' = [fetchCall EXCEPT !.pc = "idle", !.hash = <<>>]
  /\ UNCHANGED <<callVars, historyVars, envelopeVars,
                 walletVars, connectionVars,
                 isSending,
                 transferMessage, cipherKey, lookupHash, txHash, sendCall,
                 chainTxs>>

\* The App with the first account connected and its balance shown; the
\* chain holds a transaction.
InitTx ==
  /\ InitModule
  /\ InitConnected
  /\ InitEnvelopeApp
  /\ \E tx \in ForeignTxs : chainTxs = <<tx>>

NextTx ==
  \/ setTransferMessage
  \/ setCipherKey
  \/ setLookupHash
  \/ handleSendEncrypted
  \/ handleSendEncryptedSigned
  \/ handleSendEncryptedMined
  \/ handleSendEncryptedRefreshed
  \/ handleFetchTx
  \/ handleFetchTxLoaded

SpecTx == InitTx /\ [][NextTx]_vars

(***************************************************************************)
(* App.tsx (ethers), lines 382-497: connecting the wallet, the wallet's    *)
(* events, the balance and the chain data.  Each getBalance request, and   *)
(* each pair of getBlockNumber and getNetwork requests, is a call in       *)
(* flight; calls settle in any order.                                      *)
(***************************************************************************)
MaxBalanceCalls == 2

MaxReadCalls == 1

\* What the wallet answers and announces: lists of accounts, chain ids in
\* hex ('0xaa36a7', '0x1'), block numbers, chain ids.
AccountLists == {<<>>} \cup {<<a>> : a \in Accounts}

HexChainIds == {<<48, 120, 97, 97, 51, 54, 97, 55>>, <<48, 120, 49>>}

BlockNumbers == {100, 101}

ChainIds == {Sepolia, Mainnet}

\* parseInt(s, 16): an optional 0x, then hex digits.
RECURSIVE hexDigitsValue(_)
hexDigitsValue(digits) ==
  IF digits = <<>> THEN 0
  ELSE (16 * hexDigitsValue(SubSeq(digits, 1, Len(digits) - 1)))
         + HexDigitValue(digits[Len(digits)])

parseIntRadix16(s) ==
  hexDigitsValue(IF startsWith0x(s) THEN SubSeq(s, 3, Len(s)) ELSE s)

\* A sequence without its i-th element.
RemoveAt(seq, i) == SubSeq(seq, 1, i - 1) \o SubSeq(seq, i + 1, Len(seq))

\* refreshBalance(targetAddress, customProvider) up to its await: the calls
\* in flight after it.  It returns at once without a target.  The owner of
\* a call is "connect" when connectWallet awaits its end, and "detached"
\* when nothing does.
refreshBalanceCalls(targetAddress, owner) ==
  IF targetAddress = <<>> THEN balanceCalls
  ELSE Append(balanceCalls, [target |-> targetAddress, owner |-> owner])

\* readChainData(customProvider) up to its await: the calls in flight.
readChainDataCalls(owner) ==
  Append(readCalls,
         [blockNumber |-> "pending", network |-> "pending", owner |-> owner])

\* Promise.all of the two requests of a read: rejected as soon as one is,
\* fulfilled when both are.
promiseAllBlockOnly(call) ==
  IF call.blockNumber = "pending" THEN "pending"
  ELSE IF call.blockNumber = "failed" THEN "rejected"
  ELSE "fulfilled"

promiseAll(call) ==
  IF call.blockNumber = "failed" \/ call.network = "failed" THEN "rejected"
  ELSE IF call.blockNumber = "ok" /\ call.network = "ok" THEN "fulfilled"
  ELSE "pending"

\* syncConnection from the answer of provider.listAccounts() on.
syncConnection ==
  /\ syncPending
  /\ syncPending' = FALSE
  /\ \E answered \in BOOLEAN, accounts \in AccountLists :
       IF ~answered
         THEN /\ error' = EthersError
              /\ UNCHANGED <<address, status, isReading, balanceCalls,
                             readCalls>>
       ELSE IF Len(accounts) = 0
         THEN /\ status' = "wallet ready"
              /\ UNCHANGED <<address, error, isReading, balanceCalls,
                             readCalls>>
       ELSE /\ Len(balanceCalls) < MaxBalanceCalls
            /\ Len(readCalls) < MaxReadCalls
            /\ address' = accounts[1]
            /\ status' = "connected wallet detected"
            /\ error' = ""
            /\ isReading' = TRUE
            /\ balanceCalls' = refreshBalanceCalls(accounts[1], "detached")
            /\ readCalls' = readChainDataCalls("detached")
  /\ UNCHANGED <<cipherVars, historyVars, envelopeVars,
                 provider, balance, isConnecting,
                 chainId, latestBlock, targetChain, listenerAddress,
                 connectCall, balanceSettled, lastRead, txVars>>

\* connectWallet up to await provider.send('eth_requestAccounts', []).
connectWallet ==
  /\ ~isConnecting
  /\ error' = ""
  /\ IF ~provider
       THEN /\ status' = "a wallet is needed"
            /\ UNCHANGED <<isConnecting, connectCall>>
       ELSE /\ isConnecting' = TRUE
            /\ connectCall' = "eth_requestAccounts"
            /\ UNCHANGED status
  /\ UNCHANGED <<cipherVars, historyVars, envelopeVars,
                 walletVars, isReading, chainId,
                 latestBlock, targetChain, listenerAddress, syncPending,
                 balanceCalls, readCalls, balanceSettled, lastRead, txVars>>

\* connectWallet from the accounts to await Promise.all([refreshBalance,
\* readChainData]); without an account, or when the request is rejected,
\* its catch and finally.
connectWalletAccounts ==
  /\ connectCall = "eth_requestAccounts"
  /\ \E answered \in BOOLEAN, accounts \in AccountLists :
       IF ~answered \/ Len(accounts) = 0
         THEN /\ error' = (IF answered THEN "no wallet address"
                           ELSE EthersError)
              /\ isConnecting' = FALSE
              /\ connectCall' = "idle"
              /\ UNCHANGED <<address, status, isReading, balanceCalls,
                             readCalls>>
         ELSE /\ Len(balanceCalls) < MaxBalanceCalls
              /\ Len(readCalls) < MaxReadCalls
              /\ address' = accounts[1]
              /\ status' = "wallet connected"
              /\ error' = ""
              /\ isReading' = TRUE
              /\ balanceCalls' = refreshBalanceCalls(accounts[1], "connect")
              /\ readCalls' = readChainDataCalls("connect")
              /\ connectCall' = "Promise.all"
              /\ UNCHANGED isConnecting
  /\ UNCHANGED <<cipherVars, historyVars, envelopeVars,
                 provider, balance, chainId,
                 latestBlock, targetChain, listenerAddress, syncPending,
                 balanceSettled, lastRead, txVars>>

\* connectWallet from the end of refreshBalance and readChainData on.
connectWalletDone ==
  /\ connectCall = "Promise.all"
  /\ \A i \in 1..Len(balanceCalls) : balanceCalls[i].owner # "connect"
  /\ \A i \in 1..Len(readCalls) : readCalls[i].owner # "connect"
  /\ isConnecting' = FALSE
  /\ connectCall' = "idle"
  /\ UNCHANGED <<cipherVars, historyVars, envelopeVars,
                 walletVars, status, error,
                 isReading, chainId, latestBlock, targetChain,
                 listenerAddress, syncPending, balanceCalls, readCalls,
                 balanceSettled, lastRead, txVars>>

\* The listener of the wallet's accountsChanged event.
handleAccountsChanged ==
  /\ provider
  /\ \E accounts \in AccountLists :
       IF Len(accounts) = 0
         THEN /\ address' = <<>>
              /\ balance' = Null
              /\ UNCHANGED <<error, balanceCalls>>
         ELSE /\ Len(balanceCalls) < MaxBalanceCalls
              /\ address' = accounts[1]
              /\ error' = ""
              /\ balanceCalls' = refreshBalanceCalls(accounts[1], "detached")
              /\ UNCHANGED balance
  /\ UNCHANGED <<cipherVars, historyVars, envelopeVars,
                 provider, status, isConnecting,
                 isReading, chainId, latestBlock, targetChain,
                 listenerAddress, connectCall, syncPending, readCalls,
                 balanceSettled, lastRead, txVars>>

\* The listener of the wallet's chainChanged event.  The listeners were
\* registered when the provider last changed and read the address of that
\* render; the new provider makes both effects run again.
handleChainChanged ==
  /\ provider
  /\ Len(balanceCalls) < MaxBalanceCalls
  /\ Len(readCalls) < MaxReadCalls
  /\ \E hexChainId \in HexChainIds :
       /\ chainId' = Some(parseIntRadix16(hexChainId))
       /\ targetChain' = parseIntRadix16(hexChainId)
  /\ latestBlock' = Null
  /\ txInfo' = Null
  /\ txDecrypted' = <<>>
  /\ txHash' = <<>>
  /\ provider' = TRUE
  /\ balanceCalls' = refreshBalanceCalls(listenerAddress, "detached")
  /\ readCalls' = readChainDataCalls("detached")
  /\ isReading' = TRUE
  /\ error' = ""
  /\ listenerAddress' = address
  /\ syncPending' = TRUE
  /\ UNCHANGED <<cipherVars, historyVars, envelopeVars,
                 address, balance, status,
                 isConnecting, connectCall, balanceSettled, lastRead,
                 isSending, isFetchingTx, transferMessage, cipherKey,
                 lookupHash, sendCall, fetchCall, chainTxs>>

\* The refresh button: refreshBalance() up to its await.
refreshBalance ==
  /\ Len(balanceCalls) < MaxBalanceCalls
  /\ IF ~provider \/ address = <<>>
       THEN UNCHANGED <<error, balanceCalls>>
       ELSE /\ error' = ""
            /\ balanceCalls' = refreshBalanceCalls(address, "detached")
  /\ UNCHANGED <<cipherVars, historyVars, envelopeVars,
                 walletVars, status, isConnecting,
                 isReading, chainId, latestBlock, targetChain,
                 listenerAddress, connectCall, syncPending, readCalls,
                 balanceSettled, lastRead, txVars>>

\* refreshBalance from the answer of getBalance on.
refreshBalanceSettled ==
  /\ \E i \in 1..Len(balanceCalls), answered \in BOOLEAN :
       /\ balanceCalls' = RemoveAt(balanceCalls, i)
       /\ IF answered
            THEN /\ balance' =
                      Some(formatEther(balanceOf(balanceCalls[i].target)))
                 /\ balanceSettled' = "fulfilled"
                 /\ UNCHANGED error
            ELSE /\ error' = EthersError
                 /\ balanceSettled' = "rejected"
                 /\ UNCHANGED balance
  /\ UNCHANGED <<cipherVars, historyVars, envelopeVars,
                 provider, address, status,
                 isConnecting, isReading, chainId, latestBlock, targetChain,
                 listenerAddress, connectCall, syncPending, readCalls,
                 lastRead, txVars>>

\* The read button: readChainData() up to its await.
readChainData ==
  /\ provider
  /\ ~isReading
  /\ Len(readCalls) < MaxReadCalls
  /\ isReading' = TRUE
  /\ error' = ""
  /\ readCalls' = readChainDataCalls("detached")
  /\ UNCHANGED <<cipherVars, historyVars, envelopeVars,
                 walletVars, status, isConnecting,
                 chainId, latestBlock, targetChain, listenerAddress,
                 connectCall, syncPending, balanceCalls, balanceSettled,
                 lastRead, txVars>>

\* The node answers a getBlockNumber request, or the request fails.
getBlockNumberSettled ==
  /\ \E i \in 1..Len(readCalls), answered \in BOOLEAN :
       /\ readCalls[i].blockNumber = "pending"
       /\ readCalls' = [readCalls EXCEPT ![i].blockNumber =
                          IF answered THEN "ok" ELSE "failed"]
  /\ UNCHANGED <<cipherVars, historyVars, envelopeVars,
                 walletVars, status, error,
                 isConnecting, isReading, chainId, latestBlock, targetChain,
                 listenerAddress, connectCall, syncPending, balanceCalls,
                 balanceSettled, lastRead, txVars>>

\* The node answers a getNetwork request, or the request fails.
getNetworkSettled ==
  /\ \E i \in 1..Len(readCalls), answered \in BOOLEAN :
       /\ readCalls[i].network = "pending"
       /\ readCalls' = [readCalls EXCEPT ![i].network =
                          IF answered THEN "ok" ELSE "failed"]
  /\ UNCHANGED <<cipherVars, historyVars, envelopeVars,
                 walletVars, status, error,
                 isConnecting, isReading, chainId, latestBlock, targetChain,
                 listenerAddress, connectCall, syncPending, balanceCalls,
                 balanceSettled, lastRead, txVars>>

\* readChainData from the end of its Promise.all on, for one of the reads
\* in flight.
readChainDataResumed ==
  /\ \E i \in 1..Len(readCalls) :
       /\ promiseAll(readCalls[i]) # "pending"
       /\ IF promiseAll(readCalls[i]) = "fulfilled"
            THEN /\ \E blockNumber \in BlockNumbers,
                       networkChainId \in ChainIds :
                      /\ latestBlock' = Some(blockNumber)
                      /\ chainId' = Some(networkChainId)
                      /\ targetChain' = networkChainId
                 /\ UNCHANGED error
            ELSE /\ error' = EthersError
                 /\ UNCHANGED <<latestBlock, chainId, targetChain>>
       /\ lastRead' = promiseAll(readCalls[i])
       /\ readCalls' = RemoveAt(readCalls, i)
  /\ isReading' = FALSE
  /\ UNCHANGED <<cipherVars, historyVars, envelopeVars,
                 walletVars, status, isConnecting,
                 listenerAddress, connectCall, syncPending, balanceCalls,
                 balanceSettled, txVars>>

InitWallet ==
  /\ InitModule
  /\ InitApp
  /\ InitEnvelopeApp
  /\ chainTxs = <<>>

\* The wallet's accounts and the balance shown.
NextWallet ==
  \/ syncConnection
  \/ connectWallet
  \/ connectWalletAccounts
  \/ connectWalletDone
  \/ handleAccountsChanged
  \/ refreshBalance
  \/ refreshBalanceSettled
  \/ getBlockNumberSettled
  \/ getNetworkSettled
  \/ readChainDataResumed

SpecWallet == InitWallet /\ [][NextWallet]_vars

\* The wallet's chain and the chain data shown, while no account is
\* connected.
NextChain ==
  \/ handleChainChanged
  \/ readChainData
  \/ getBlockNumberSettled
  \/ getNetworkSettled
  \/ readChainDataResumed

SpecChain == InitWallet /\ [][NextChain]_vars

(***************************************************************************)
(* App.tsx (wagmi, red envelopes), lines 1009-1714: claiming an envelope.  *)
(* This App has its own status, error, address and chainId (the values of  *)
(* wagmi's useAccount and useChainId); the variables of those names stand  *)
(* for them here, and the variables of the ethers App keep their initial   *)
(* values.  The contract is known by its ABI: what its view functions      *)
(* answer is any value of their result types.                              *)
(***************************************************************************)
\* How many invocations of loadEnvelopeDetail, handleClaim, handleReclaim
\* and handleCreate wait on a promise at a time.
MaxEnvelopeCalls == 1

envelopeCallsWaiting ==
  Len(loadCalls) + Len(claimCalls) + Len(reclaimCalls) + Len(createCalls)

TARGET_CHAIN_ID == Sepolia

\* usePublicClient({ chainId: TARGET_CHAIN_ID }): the chain is configured.
publicClient == TRUE

\* What the user types as envelope id: "", "2", "x".
ClaimIds == {<<>>, <<50>>, <<120>>}

\* What getEnvelope(id) answers, as far as handleClaim reads it: an
\* envelope that can be claimed, one that fails a single check, and one
\* that fails them all.
Claimable ==
  [remainingAmount |-> 5, remainingSlots |-> 2, reclaimed |-> FALSE,
   expired |-> FALSE]

EnvelopeInfos ==
  {Claimable,
   [Claimable EXCEPT !.remainingAmount = 0],
   [Claimable EXCEPT !.remainingSlots = 0],
   [Claimable EXCEPT !.reclaimed = TRUE],
   [Claimable EXCEPT !.expired = TRUE],
   [remainingAmount |-> 0, remainingSlots |-> 0, reclaimed |-> TRUE,
    expired |-> TRUE]}

\* BigInt(text) of a decimal text; a SyntaxError for any other text.
RECURSIVE decimalValue(_)
decimalValue(digits) ==
  IF digits = <<>> THEN 0
  ELSE (10 * decimalValue(SubSeq(digits, 1, Len(digits) - 1)))
         + (digits[Len(digits)] - 48)

BigInt(text) ==
  IF \A i \in 1..Len(text) : text[i] >= 48 /\ text[i] <= 57
    THEN Ok(decimalValue(text))
    ELSE Throw("SyntaxError")

\* formatTxError(err), for a rejection by the user (code 4001), a lack of
\* funds, and any other error with a message of more than 18 characters.
formatTxError(err) ==
  CASE err = "rejected" -> "user cancelled the transaction"
    [] err = "insufficient funds" -> "balance too low for the transaction"
    [] OTHER -> "transaction failed, try again later"

\* Some invocation waits on writeContractAsync.
writePending(claims, reclaims, creates) ==
  \/ \E j \in 1..Len(claims) : claims[j].pc = "writeContract"
  \/ \E j \in 1..Len(reclaims) : reclaims[j].pc = "writeContract"
  \/ creates # <<>>

\* The checks of handleClaim on what getEnvelope answered: the status it
\* sets, or "" when it goes on.
claimRefusalNoAmount(info) ==
  IF info.expired THEN "envelope expired"
  ELSE IF info.reclaimed THEN "envelope reclaimed"
  ELSE IF info.remainingSlots = 0 THEN "envelope empty"
  ELSE ""

claimRefusal(info) ==
  IF info.expired THEN "envelope expired"
  ELSE IF info.reclaimed THEN "envelope reclaimed"
  ELSE IF info.remainingSlots = 0 \/ info.remainingAmount = 0
    THEN "envelope empty"
  ELSE ""

\* wagmi: the wallet connects its account, disconnects, or changes chain;
\* the effect on isConnected sets the status.
walletConnected ==
  /\ ~isConnected
  /\ address' = FirstAccount
  /\ isConnected' = TRUE
  /\ status' = "wallet connected"
  /\ UNCHANGED <<cipherVars, historyVars, reclaimCalls, createVars,
                 toastVars, provider, balance, connectionVars,
                 error, txVars, isWriting, isWaitingReceipt, claimId, detail,
                 loadCalls, claimCalls, writes>>

walletDisconnected ==
  /\ isConnected
  /\ address' = <<>>
  /\ isConnected' = FALSE
  /\ status' = ""
  /\ UNCHANGED <<cipherVars, historyVars, reclaimCalls, createVars,
                 toastVars, provider, balance, connectionVars,
                 error, txVars, isWriting, isWaitingReceipt, claimId, detail,
                 loadCalls, claimCalls, writes>>

chainSwitched ==
  /\ \E id \in ChainIds : chainId' = Some(id)
  /\ UNCHANGED <<cipherVars, historyVars, walletVars, isConnecting, isReading,
                 latestBlock, targetChain, listenerAddress, connectCall,
                 syncPending, balanceCalls, readCalls, balanceSettled,
                 lastRead, status, error, txVars, envelopeVars>>

setClaimId ==
  /\ \E id \in ClaimIds : claimId' = id
  /\ UNCHANGED <<cipherVars, historyVars, reclaimCalls, createVars,
                 toastVars, walletVars, connectionVars, status,
                 error, txVars, isConnected, isWriting, isWaitingReceipt,
                 detail, loadCalls, claimCalls, writes>>

\* handleClaim up to await readContract(getEnvelope).
handleClaim ==
  /\ isConnected
  /\ detail # Null
  /\ ~isWriting
  /\ ~isWaitingReceipt
  /\ envelopeCallsWaiting < MaxEnvelopeCalls
  /\ LET envId == IF claimId # <<>> THEN claimId ELSE detail[1].id
         idNum == BigInt(envId)
     IN IF ~isConnected
          THEN /\ status' = "connect the wallet first"
               /\ UNCHANGED <<error, claimCalls>>
        ELSE IF chainId # Null /\ chainId # Some(TARGET_CHAIN_ID)
          THEN /\ status' = "switch to Sepolia"
               /\ UNCHANGED <<error, claimCalls>>
        ELSE IF address = <<>>
          THEN /\ status' = "connect the wallet first"
               /\ UNCHANGED <<error, claimCalls>>
        ELSE IF envId = <<>>
          THEN /\ status' = "enter an envelope id"
               /\ UNCHANGED <<error, claimCalls>>
        ELSE IF ~idNum.ok
          THEN /\ error' = formatTxError(idNum.err)
               /\ UNCHANGED <<status, claimCalls>>
        ELSE IF ~publicClient
          THEN /\ error' = ""
               /\ status' = "no chain client"
               /\ UNCHANGED claimCalls
        ELSE /\ error' = ""
             /\ claimCalls' = Append(claimCalls,
                  [pc |-> "getEnvelope", read |-> "pending",
                   id |-> idNum.val, user |-> address,
                   info |-> Null, alreadyClaimed |-> Null])
             /\ UNCHANGED status
  /\ UNCHANGED <<cipherVars, historyVars, reclaimCalls, createVars,
                 toastVars, walletVars, connectionVars, txVars,
                 isConnected, isWriting, isWaitingReceipt, claimId, detail,
                 loadCalls, writes>>

\* The node answers the read a handleClaim invocation waits on, or the
\* read fails.
readContractSettled ==
  /\ \E i \in 1..Len(claimCalls) :
       /\ claimCalls[i].read = "pending"
       /\ \/ claimCalls' = [claimCalls EXCEPT ![i].read = "failed"]
          \/ /\ claimCalls[i].pc = "getEnvelope"
             /\ \E info \in EnvelopeInfos :
                  claimCalls' = [claimCalls EXCEPT ![i].read = "ok",
                                                   ![i].info = Some(info)]
          \/ /\ claimCalls[i].pc = "claimed"
             /\ \E answer \in BOOLEAN :
                  claimCalls' = [claimCalls EXCEPT
                                   ![i].read = "ok",
                                   ![i].alreadyClaimed = Some(answer)]
  /\ UNCHANGED <<cipherVars, historyVars, reclaimCalls, createVars,
                 toastVars, walletVars, connectionVars, status,
                 error, txVars, isConnected, isWriting, isWaitingReceipt,
                 claimId, detail, loadCalls, writes>>

\* handleClaim from getEnvelope's answer to await readContract(claimed).
handleClaimEnvelope ==
  /\ \E i \in 1..Len(claimCalls) :
       /\ claimCalls[i].pc = "getEnvelope"
       /\ claimCalls[i].read # "pending"
       /\ IF claimCalls[i].read = "failed"
            THEN /\ error' = formatTxError("readContract")
                 /\ claimCalls' = RemoveAt(claimCalls, i)
                 /\ UNCHANGED status
          ELSE IF claimRefusal(claimCalls[i].info[1]) # ""
            THEN /\ status' = claimRefusal(claimCalls[i].info[1])
                 /\ claimCalls' = RemoveAt(claimCalls, i)
                 /\ UNCHANGED error
          ELSE /\ claimCalls' = [claimCalls EXCEPT ![i].pc = "claimed",
                                                   ![i].read = "pending"]
               /\ UNCHANGED <<status, error>>
  /\ UNCHANGED <<cipherVars, historyVars, reclaimCalls, createVars,
                 toastVars, walletVars, connectionVars, txVars,
                 isConnected, isWriting, isWaitingReceipt, claimId, detail,
                 loadCalls, writes>>

\* handleClaim from claimed's answer to await writeContractAsync(claim).
handleClaimClaimed ==
  /\ \E i \in 1..Len(claimCalls) :
       /\ claimCalls[i].pc = "claimed"
       /\ claimCalls[i].read # "pending"
       /\ IF claimCalls[i].read = "failed"
            THEN /\ error' = formatTxError("readContract")
                 /\ claimCalls' = RemoveAt(claimCalls, i)
                 /\ UNCHANGED <<status, isWriting, writes>>
          ELSE IF claimCalls[i].alreadyClaimed[1]
            THEN /\ status' = "already claimed"
                 /\ claimCalls' = RemoveAt(claimCalls, i)
                 /\ UNCHANGED <<error, isWriting, writes>>
          ELSE /\ status' = "submitting the claim"
               /\ isWriting' = TRUE
               /\ writes' = writes \cup
                    {[functionName |-> "claim", id |-> claimCalls[i].id,
                      user |-> claimCalls[i].user,
                      info |-> claimCalls[i].info,
                      alreadyClaimed |-> claimCalls[i].alreadyClaimed]}
               /\ claimCalls' = [claimCalls EXCEPT ![i].pc = "writeContract"]
               /\ UNCHANGED error
  /\ UNCHANGED <<cipherVars, historyVars, reclaimCalls, createVars,
                 toastVars, walletVars, connectionVars, txVars,
                 isConnected, isWaitingReceipt, claimId, detail, loadCalls>>

\* handleClaim from the end of writeContractAsync on: the hash, or the
\* error of the wallet.  isPending follows the latest submission, which is
\* this one or one still waiting.
handleClaimSent ==
  /\ \E i \in 1..Len(claimCalls) :
       /\ claimCalls[i].pc = "writeContract"
       /\ claimCalls' = RemoveAt(claimCalls, i)
       /\ \E outcome \in {"sent", "rejected", "insufficient funds"} :
            IF outcome = "sent"
              THEN /\ status' = "transaction sent"
                   /\ isWaitingReceipt' = TRUE
                   /\ UNCHANGED error
              ELSE /\ error' = formatTxError(outcome)
                   /\ UNCHANGED <<status, isWaitingReceipt>>
  /\ isWriting' \in {b \in BOOLEAN :
                      b => writePending(claimCalls', reclaimCalls, createCalls)}
  /\ UNCHANGED <<cipherVars, historyVars, reclaimCalls, createVars,
                 toastVars, walletVars, connectionVars, txVars,
                 isConnected, claimId, detail, loadCalls, writes>>

\* loadEnvelopeDetail(claimId) up to await fetchGraph.
loadEnvelopeDetail ==
  /\ claimId # <<>>
  /\ envelopeCallsWaiting < MaxEnvelopeCalls
  /\ IF trim(claimId) = <<>>
       THEN UNCHANGED <<error, loadCalls>>
       ELSE /\ error' = ""
            /\ loadCalls' = Append(loadCalls, claimId)
  /\ UNCHANGED <<cipherVars, historyVars, reclaimCalls, createVars,
                 toastVars, walletVars, connectionVars, status,
                 txVars, isConnected, isWriting, isWaitingReceipt, claimId,
                 detail, claimCalls, writes>>

\* loadEnvelopeDetail from fetchGraph's answer on: the envelope of that id,
\* no envelope, or an error of the subgraph.  A failure of the read of
\* getEnvelope that refreshes the detail is ignored by the code.
loadEnvelopeDetailSettled ==
  /\ \E i \in 1..Len(loadCalls) :
       /\ loadCalls' = RemoveAt(loadCalls, i)
       /\ \E outcome \in {"found", "none", "failed"} :
            CASE outcome = "found" ->
                   /\ detail' = Some([id |-> loadCalls[i]])
                   /\ UNCHANGED <<status, error>>
              [] outcome = "none" ->
                   /\ detail' = Null
                   /\ status' = "envelope not found"
                   /\ UNCHANGED error
              [] OTHER ->
                   /\ error' = "error of the subgraph"
                   /\ UNCHANGED <<status, detail>>
  /\ UNCHANGED <<cipherVars, historyVars, reclaimCalls, createVars,
                 toastVars, walletVars, connectionVars, txVars,
                 isConnected, isWriting, isWaitingReceipt, claimId,
                 claimCalls, writes>>

\* The receipt of the transaction arrives: the effect on receipt sets the
\* status and loads the list and the detail again (the list is not
\* represented; loadEnvelopes clears the error).
receiptArrived ==
  /\ isWaitingReceipt
  /\ envelopeCallsWaiting < MaxEnvelopeCalls
  /\ isWaitingReceipt' = FALSE
  /\ \E success \in BOOLEAN :
       status' = IF success THEN "transaction mined" ELSE "transaction failed"
  /\ error' = ""
  /\ loadCalls' = IF detail # Null /\ trim(detail[1].id) # <<>>
                    THEN Append(loadCalls, detail[1].id)
                    ELSE loadCalls
  /\ UNCHANGED <<cipherVars, historyVars, reclaimCalls, createVars,
                 toastVars, walletVars, connectionVars, txVars,
                 isConnected, isWriting, claimId, detail, claimCalls, writes>>

\* The red envelope App after its first render, no wallet connected.
InitEnvelope ==
  /\ InitModule
  /\ InitAppOnly
  /\ InitEnvelopeApp
  /\ chainTxs = <<>>
  /\ address = <<>>
  /\ chainId = Some(TARGET_CHAIN_ID)
  /\ status = ""
  /\ error = ""

NextEnvelope ==
  \/ walletConnected
  \/ walletDisconnected
  \/ chainSwitched
  \/ setClaimId
  \/ loadEnvelopeDetail
  \/ loadEnvelopeDetailSettled
  \/ handleClaim
  \/ readContractSettled
  \/ handleClaimEnvelope
  \/ handleClaimClaimed
  \/ handleClaimSent
  \/ receiptArrived

SpecEnvelope == InitEnvelope /\ [][NextEnvelope]_vars

(***************************************************************************)
(* App.tsx (wagmi, red envelopes): taking back an expired envelope.  The   *)
(* buttons stand in the list of the user's envelopes, which is not         *)
(* represented: handleReclaim is called with the id of any listed one.     *)
(***************************************************************************)
ReclaimIds == {<<50>>, <<120>>}

\* What getEnvelope(id) answers, as far as handleReclaim reads it: the
\* answers above, and an expired envelope with nothing left.
ReclaimInfos ==
  EnvelopeInfos \cup
    {[Claimable EXCEPT !.expired = TRUE, !.remainingAmount = 0],
     [Claimable EXCEPT !.expired = TRUE, !.remainingSlots = 0]}

\* The checks of handleReclaim on what getEnvelope answered: the status it
\* sets, or "" when it goes on.
reclaimRefusalNoExpiry(info) ==
  IF info.reclaimed THEN "envelope already reclaimed"
  ELSE IF info.remainingAmount = 0 \/ info.remainingSlots = 0
    THEN "nothing to reclaim"
  ELSE ""

reclaimRefusal(info) ==
  IF info.reclaimed THEN "envelope already reclaimed"
  ELSE IF ~info.expired THEN "envelope not expired yet"
  ELSE IF info.remainingAmount = 0 \/ info.remainingSlots = 0
    THEN "nothing to reclaim"
  ELSE ""

\* handleReclaim(id) up to await readContract(getEnvelope).
handleReclaim ==
  /\ isConnected
  /\ ~isWriting
  /\ ~isWaitingReceipt
  /\ envelopeCallsWaiting < MaxEnvelopeCalls
  /\ \E id \in ReclaimIds :
       LET envId == BigInt(id)
       IN IF ~isConnected
            THEN /\ status' = "connect the wallet first"
                 /\ UNCHANGED <<error, reclaimCalls>>
          ELSE IF chainId # Null /\ chainId # Some(TARGET_CHAIN_ID)
            THEN /\ status' = "switch to Sepolia"
                 /\ UNCHANGED <<error, reclaimCalls>>
          ELSE IF address = <<>>
            THEN /\ status' = "connect the wallet first"
                 /\ UNCHANGED <<error, reclaimCalls>>
          ELSE IF id = <<>>
            THEN /\ status' = "envelope id missing"
                 /\ UNCHANGED <<error, reclaimCalls>>
          ELSE IF ~envId.ok
            THEN /\ error' = formatTxError(envId.err)
                 /\ UNCHANGED <<status, reclaimCalls>>
          ELSE IF ~publicClient
            THEN /\ error' = ""
                 /\ status' = "no chain client"
                 /\ UNCHANGED reclaimCalls
          ELSE /\ error' = ""
               /\ reclaimCalls' = Append(reclaimCalls,
                    [pc |-> "getEnvelope", read |-> "pending",
                     id |-> envId.val, user |-> address, info |-> Null])
               /\ UNCHANGED status
  /\ UNCHANGED <<cipherVars, historyVars, walletVars, connectionVars, txVars,
                 isConnected, isWriting, isWaitingReceipt, claimId, detail,
                 loadCalls, claimCalls, writes, createVars, toastVars>>

\* The node answers the read a handleReclaim invocation waits on, or the
\* read fails.
reclaimReadSettled ==
  /\ \E i \in 1..Len(reclaimCalls) :
       /\ reclaimCalls[i].pc = "getEnvelope"
       /\ reclaimCalls[i].read = "pending"
       /\ \/ reclaimCalls' = [reclaimCalls EXCEPT ![i].read = "failed"]
          \/ \E info \in ReclaimInfos :
               reclaimCalls' = [reclaimCalls EXCEPT ![i].read = "ok",
                                                    ![i].info = Some(info)]
  /\ UNCHANGED <<cipherVars, historyVars, walletVars, connectionVars, status,
                 error, txVars, isConnected, isWriting, isWaitingReceipt,
                 claimId, detail, loadCalls, claimCalls, writes, createVars,
                 toastVars>>

\* handleReclaim from getEnvelope's answer to await
\* writeContractAsync(reclaimExpired).
handleReclaimEnvelope ==
  /\ \E i \in 1..Len(reclaimCalls) :
       /\ reclaimCalls[i].pc = "getEnvelope"
       /\ reclaimCalls[i].read # "pending"
       /\ IF reclaimCalls[i].read = "failed"
            THEN /\ error' = formatTxError("readContract")
                 /\ reclaimCalls' = RemoveAt(reclaimCalls, i)
                 /\ UNCHANGED <<status, isWriting, writes>>
          ELSE IF reclaimRefusal(reclaimCalls[i].info[1]) # ""
            THEN /\ status' = reclaimRefusal(reclaimCalls[i].info[1])
                 /\ reclaimCalls' = RemoveAt(reclaimCalls, i)
                 /\ UNCHANGED <<error, isWriting, writes>>
          ELSE /\ status' = "submitting the reclaim"
               /\ isWriting' = TRUE
               /\ writes' = writes \cup
                    {[functionName |-> "reclaimExpired",
                      id |-> reclaimCalls[i].id,
                      user |-> reclaimCalls[i].user,
                      info |-> reclaimCalls[i].info,
                      alreadyClaimed |-> Null]}
               /\ reclaimCalls' =
                    [reclaimCalls EXCEPT ![i].pc = "writeContract"]
               /\ UNCHANGED error
  /\ UNCHANGED <<cipherVars, historyVars, walletVars, connectionVars, txVars,
                 isConnected, isWaitingReceipt, claimId, detail, loadCalls,
                 claimCalls, createVars, toastVars>>

\* handleReclaim from the end of writeContractAsync on.
handleReclaimSent ==
  /\ \E i \in 1..Len(reclaimCalls) :
       /\ reclaimCalls[i].pc = "writeContract"
       /\ reclaimCalls' = RemoveAt(reclaimCalls, i)
       /\ \E outcome \in {"sent", "rejected", "insufficient funds"} :
            IF outcome = "sent"
              THEN /\ status' = "transaction sent"
                   /\ isWaitingReceipt' = TRUE
                   /\ UNCHANGED error
              ELSE /\ error' = formatTxError(outcome)
                   /\ UNCHANGED <<status, isWaitingReceipt>>
  /\ isWriting' \in {b \in BOOLEAN :
                      b => writePending(claimCalls, reclaimCalls', createCalls)}
  /\ UNCHANGED <<cipherVars, historyVars, walletVars, connectionVars, txVars,
                 isConnected, claimId, detail, loadCalls, claimCalls, writes,
                 createVars, toastVars>>

NextReclaim ==
  \/ walletConnected
  \/ walletDisconnected
  \/ chainSwitched
  \/ handleReclaim
  \/ reclaimReadSettled
  \/ handleReclaimEnvelope
  \/ handleReclaimSent
  \/ receiptArrived

SpecReclaim == InitEnvelope /\ [][NextReclaim]_vars

(***************************************************************************)
(* App.tsx (wagmi, red envelopes): sending an envelope.                    *)
(***************************************************************************)
MaxWrites == 1

\* What the inputs of type number hand to setFormSlots and setFormAmount:
\* "", "2", "3.5", "10", "11", and "", "1e1".
FormSlotsInputs ==
  {<<>>, <<50>>, <<51, 46, 53>>, <<49, 48>>, <<49, 49>>}

FormAmountInputs == {<<>>, <<49, 101, 49>>}

isDigits(text) == \A i \in 1..Len(text) : text[i] >= 48 /\ text[i] <= 57

\* The parts of a text before and after its first ".".
wholePart(text) ==
  IF \E i \in 1..Len(text) : text[i] = 46
    THEN SubSeq(text, 1, (CHOOSE i \in 1..Len(text) :
                            /\ text[i] = 46
                            /\ \A j \in 1..(i - 1) : text[j] # 46) - 1)
    ELSE text

fractionPart(text) ==
  IF \E i \in 1..Len(text) : text[i] = 46
    THEN SubSeq(text, Len(wholePart(text)) + 2, Len(text))
    ELSE <<>>

NaN == [finite |-> FALSE, whole |-> 0, fraction |-> FALSE]

\* Number(text) for a text without sign, exponent, prefix or white space: 0
\* for "", the decimal number (its whole part, and whether it has a
\* fraction) for digits with at most one ".", NaN otherwise.
Number(text) ==
  IF /\ isDigits(wholePart(text))
     /\ isDigits(fractionPart(text))
     /\ (text = <<>> \/ wholePart(text) \o fractionPart(text) # <<>>)
    THEN [finite |-> TRUE, whole |-> decimalValue(wholePart(text)),
          fraction |-> \E i \in 1..Len(fractionPart(text)) :
                         fractionPart(text)[i] # 48]
    ELSE NaN

\* slots < 3 || slots > 10
slotsOutOfRange(slots) ==
  \/ slots.whole < 3
  \/ slots.whole > 10
  \/ (slots.whole = 10 /\ slots.fraction)

RECURSIVE padEnd(_, _)
padEnd(digits, n) ==
  IF Len(digits) >= n THEN digits ELSE padEnd(Append(digits, 48), n)

\* viem's parseEther(text) for a text without sign and with at most
\* EtherDecimals decimals, in units of 10^(18 - EtherDecimals) wei; an
\* InvalidDecimalNumberError for a text that is no decimal number.
parseEther(text) ==
  IF /\ isDigits(wholePart(text))
     /\ isDigits(fractionPart(text))
     /\ Len(fractionPart(text)) <= EtherDecimals
    THEN Ok(decimalValue(wholePart(text)
                           \o padEnd(fractionPart(text), EtherDecimals)))
    ELSE Throw("InvalidDecimalNumberError")

setFormAmount ==
  /\ isConnected
  /\ \E text \in FormAmountInputs : formAmount' = text
  /\ UNCHANGED <<cipherVars, historyVars, walletVars, connectionVars, status,
                 error, txVars, isConnected, isWriting, isWaitingReceipt,
                 claimId, detail, loadCalls, claimCalls, writes, reclaimCalls,
                 formSlots, formEqual, createCalls, toastVars>>

setFormSlots ==
  /\ isConnected
  /\ \E text \in FormSlotsInputs : formSlots' = text
  /\ UNCHANGED <<cipherVars, historyVars, walletVars, connectionVars, status,
                 error, txVars, isConnected, isWriting, isWaitingReceipt,
                 claimId, detail, loadCalls, claimCalls, writes, reclaimCalls,
                 formAmount, formEqual, createCalls, toastVars>>

setFormEqual ==
  /\ isConnected
  /\ formEqual' = ~formEqual
  /\ UNCHANGED <<cipherVars, historyVars, walletVars, connectionVars, status,
                 error, txVars, isConnected, isWriting, isWaitingReceipt,
                 claimId, detail, loadCalls, claimCalls, writes, reclaimCalls,
                 formAmount, formSlots, createCalls, toastVars>>

\* handleCreate up to await writeContractAsync(createEnvelope).
handleCreate ==
  /\ isConnected
  /\ ~isWriting
  /\ ~isWaitingReceipt
  /\ envelopeCallsWaiting < MaxEnvelopeCalls
  /\ Cardinality(writes) < MaxWrites
  /\ LET slots == Number(formSlots)
         value == parseEther(IF formAmount # <<>> THEN formAmount
                             ELSE <<48>>)
     IN IF ~isConnected
          THEN /\ status' = "connect the wallet first"
               /\ UNCHANGED <<error, isWriting, writes, createCalls>>
        ELSE IF chainId # Null /\ chainId # Some(TARGET_CHAIN_ID)
          THEN /\ status' = "switch to Sepolia"
               /\ UNCHANGED <<error, isWriting, writes, createCalls>>
        ELSE IF ~slots.finite \/ slotsOutOfRange(slots)
          THEN /\ error' = ""
               /\ status' = "slots must be 3 to 10"
               /\ UNCHANGED <<isWriting, writes, createCalls>>
        ELSE IF ~value.ok
          THEN /\ error' = formatTxError(value.err)
               /\ UNCHANGED <<status, isWriting, writes, createCalls>>
        ELSE /\ error' = ""
             /\ status' = "submitting the envelope"
             /\ isWriting' = TRUE
             /\ writes' = writes \cup
                  {[functionName |-> "createEnvelope", slots |-> slots,
                    equalShare |-> formEqual, value |-> value.val]}
             /\ createCalls' = Append(createCalls, [slots |-> slots])
  /\ UNCHANGED <<cipherVars, historyVars, walletVars, connectionVars, txVars,
                 isConnected, isWaitingReceipt, claimId, detail, loadCalls,
                 claimCalls, reclaimCalls, formAmount, formSlots, formEqual,
                 toastVars>>

\* handleCreate from the end of writeContractAsync on: the hash, after
\* which loadEnvelopes clears the error (the list is not represented), or
\* the error of the wallet or of viem, which cannot encode a number with a
\* fraction as uint8.
handleCreateSent ==
  /\ \E i \in 1..Len(createCalls) :
       /\ createCalls' = RemoveAt(createCalls, i)
       /\ \E outcome \in
              IF createCalls[i].slots.fraction THEN {"encoding"}
              ELSE {"sent", "rejected", "insufficient funds"} :
            IF outcome = "sent"
              THEN /\ status' = "transaction sent"
                   /\ isWaitingReceipt' = TRUE
                   /\ error' = ""
              ELSE /\ error' = formatTxError(outcome)
                   /\ UNCHANGED <<status, isWaitingReceipt>>
  /\ isWriting' \in {b \in BOOLEAN :
                      b => writePending(claimCalls, reclaimCalls, createCalls')}
  /\ UNCHANGED <<cipherVars, historyVars, walletVars, connectionVars, txVars,
                 isConnected, claimId, detail, loadCalls, claimCalls, writes,
                 reclaimCalls, formAmount, formSlots, formEqual, toastVars>>

NextCreate ==
  \/ walletConnected
  \/ walletDisconnected
  \/ chainSwitched
  \/ setFormAmount
  \/ setFormSlots
  \/ setFormEqual
  \/ handleCreate
  \/ handleCreateSent
  \/ receiptArrived

SpecCreate == InitEnvelope /\ [][NextCreate]_vars

(***************************************************************************)
(* App.tsx (wagmi, red envelopes): the three handlers that write to the    *)
(* contract, with the form of handleCreate left as it is first rendered.   *)
(***************************************************************************)
NextWrites ==
  \/ walletConnected
  \/ walletDisconnected
  \/ chainSwitched
  \/ setClaimId
  \/ loadEnvelopeDetail
  \/ loadEnvelopeDetailSettled
  \/ handleClaim
  \/ readContractSettled
  \/ handleClaimEnvelope
  \/ handleClaimClaimed
  \/ handleClaimSent
  \/ handleReclaim
  \/ reclaimReadSettled
  \/ handleReclaimEnvelope
  \/ handleReclaimSent
  \/ handleCreate
  \/ handleCreateSent
  \/ receiptArrived

SpecWrites == InitEnvelope /\ [][NextWrites]_vars

(***************************************************************************)
(* App.tsx (wagmi, red envelopes): the toasts.  Two effects call pushToast *)
(* after a render in which status or error has changed; each toast gets a  *)
(* timeout of 3000 ms, so the timeouts expire in the order they were set.  *)
(***************************************************************************)
MaxToasts == 2

\* Date.now() + Math.random(): any number, the one of an earlier toast
\* included.
ToastIds == 1..MaxToasts

\* setToasts([{ id, message, tone }])
toastsAppended(prev, toast) == Append(prev, toast)

toastsPushed(prev, toast) == <<toast>>

\* setToasts((prev) => prev.filter((t) => t.id !== id))
toastsExpired(prev, id) == SelectSeq(prev, LAMBDA t : t.id # id)

\* pushToast(message, tone), as a step that leaves the other variables to
\* the effect that calls it.
pushToast(message, tone) ==
  IF message = ""
    THEN UNCHANGED <<toasts, timers, lastToast>>
    ELSE \E id \in ToastIds :
           LET toast == [id |-> id, message |-> message, tone |-> tone]
           IN /\ toasts' = toastsPushed(toasts, toast)
              /\ timers' = Append(timers, id)
              /\ lastToast' = Some(toast)

\* useEffect(() => { if (status) pushToast(status, 'info') }, [status])
statusEffect ==
  /\ status # statusShown
  /\ Len(timers) < MaxToasts
  /\ statusShown' = status
  /\ pushToast(status, "info")
  /\ UNCHANGED <<cipherVars, historyVars, walletVars, connectionVars, status,
                 error, txVars, isConnected, isWriting, isWaitingReceipt,
                 claimId, detail, loadCalls, claimCalls, writes, reclaimCalls,
                 createVars, errorShown>>

\* useEffect(() => { if (error) pushToast(error, 'error') }, [error])
errorEffect ==
  /\ error # errorShown
  /\ Len(timers) < MaxToasts
  /\ errorShown' = error
  /\ pushToast(error, "error")
  /\ UNCHANGED <<cipherVars, historyVars, walletVars, connectionVars, status,
                 error, txVars, isConnected, isWriting, isWaitingReceipt,
                 claimId, detail, loadCalls, claimCalls, writes, reclaimCalls,
                 createVars, statusShown>>

\* The oldest timeout expires.
toastTimeout ==
  /\ timers # <<>>
  /\ toasts' = toastsExpired(toasts, Head(timers))
  /\ timers' = Tail(timers)
  /\ UNCHANGED <<cipherVars, historyVars, walletVars, connectionVars, status,
                 error, txVars, isConnected, isWriting, isWaitingReceipt,
                 claimId, detail, loadCalls, claimCalls, writes, reclaimCalls,
                 createVars, statusShown, errorShown, lastToast>>

NextToast ==
  \/ walletConnected
  \/ walletDisconnected
  \/ chainSwitched
  \/ handleCreate
  \/ handleCreateSent
  \/ receiptArrived
  \/ statusEffect
  \/ errorEffect
  \/ toastTimeout

SpecToast == InitEnvelope /\ [][NextToast]_vars

(***************************************************************************)
(* Properties.                                                             *)
(***************************************************************************)
\* Bit k of n, and the xor of two bytes bit by bit.
BitOf(n, k) == (n \div (2 ^ k)) % 2

XorOfBytes(a, b) ==
  LET X(k) == ((BitOf(a, k) + BitOf(b, k)) % 2) * (2 ^ k)
  IN X(0) + X(1) + X(2) + X(3) + X(4) + X(5) + X(6) + X(7)

\* C1: for every byte sequence (the empty one too) and every non-empty key,
\* applying the byte transform to its own output with the same key returns
\* the input.
C1_SelfInverse ==
  (op = "applyCipher" /\ Len(key) > 0) => applyCipher(result.val, key) = arg

C1_Witness ==
  /\ op = "applyCipher"
  /\ Len(key) = 2
  /\ Len(arg) = 4
  /\ result.val # arg
  /\ applyCipher(result.val, key) = arg

\* C3: for every input, non-empty key and index i of the input, the output
\* byte is input[i] XOR key[i mod key.length] XOR ((i * 31 + 0xA5) mod 256),
\* a byte in 0..255.
C3_ByteFormula ==
  (op = "applyCipher" /\ Len(key) > 0) =>
    \A i \in 0..(Len(arg) - 1) :
      /\ (i + 1) \in DOMAIN result.val
      /\ result.val[i + 1] \in 0..255
      /\ result.val[i + 1] =
           XorOfBytes(XorOfBytes(arg[i + 1], key[(i % Len(key)) + 1]),
                      (i * 31 + 165) % 256)

\* an index whose i * 31 + 0xA5 exceeds a byte, with the key reused
C3_Witness ==
  /\ op = "applyCipher"
  /\ Len(key) = 2
  /\ Len(arg) = 16
  /\ result.val[4] = XorOfBytes(XorOfBytes(arg[4], key[2]), 2)

\* C4: the transform's output has exactly as many bytes as its input, for
\* every input length and every non-empty key, shorter or longer than the
\* input.
C4_LengthPreserved ==
  (op = "applyCipher" /\ Len(key) > 0) => Len(result.val) = Len(arg)

\* a key longer than the input
C4_Witness ==
  /\ op = "applyCipher"
  /\ Len(key) = 2
  /\ Len(arg) = 1
  /\ Len(result.val) = 1

\* The hex digits of a string: what follows its 0x prefix, or all of it.
DigitsOf(h) == IF startsWith0x(h) THEN SubSeq(h, 3, Len(h)) ELSE h

AllHexDigits(d) == \A i \in 1..Len(d) : IsHexDigit(d[i])

IsLowerHexDigit(c) == (c >= 48 /\ c <= 57) \/ (c >= 97 /\ c <= 102)

\* A string of whole code points: every surrogate is half of a pair.
WellFormedText(t) ==
  \A i \in 1..Len(t) :
    /\ IsHighSurrogate(t[i]) => (i < Len(t) /\ IsLowSurrogate(t[i + 1]))
    /\ IsLowSurrogate(t[i]) => (i > 1 /\ IsHighSurrogate(t[i - 1]))

\* C2: for every non-empty text t and every key that is non-empty after
\* trimming, decryptHexToText(encryptTextToHex(t, key), key) is exactly t.
\* (Stated for texts of whole code points, the strings that are text.)
C2_RoundTrip ==
  (/\ op = "encryptTextToHex"
   /\ arg # <<>>
   /\ WellFormedText(arg)
   /\ ~TrimIsEmpty(key)) =>
    /\ result.ok
    /\ decryptHexToText(result.val, key) = Ok(arg)

\* C5: a successful encryptTextToHex returns "0x" followed by lowercase hex
\* digits only, two for each byte of the encoded text.
C5_HexOutputFormat ==
  (op = "encryptTextToHex" /\ result.ok) =>
    /\ startsWith0x(result.val)
    /\ \A i \in 3..Len(result.val) : IsLowerHexDigit(result.val[i])
    /\ Len(result.val) = 2 + 2 * Len(encode(arg))
    /\ Len(result.val) % 2 = 0

\* the first byte of the ciphertext is below 0x10
C5_Witness ==
  /\ op = "encryptTextToHex"
  /\ result.ok
  /\ Len(encode(arg)) >= 2
  /\ result.val[3] = 48
  /\ result.val[4] # 48

\* C6: encryptTextToHex fails and returns nothing when the text is empty;
\* encryptTextToHex and decryptHexToText fail and return nothing when the key
\* is empty or only whitespace.
C6_EmptyInputsFail ==
  /\ (op = "encryptTextToHex" /\ arg = <<>>) =>
       (~result.ok /\ result.val = <<>> /\ result.err # "none")
  /\ (op \in {"encryptTextToHex", "decryptHexToText"} /\ TrimIsEmpty(key)) =>
       (~result.ok /\ result.val = <<>> /\ result.err # "none")

\* a key of two spaces with a valid ciphertext
C6_Witness ==
  /\ op = "decryptHexToText"
  /\ key = <<32, 32>>
  /\ normalizeHex(arg).ok
  /\ Len(arg) > 2
  /\ result = Throw("EmptyKey")

\* C7: decryptHexToText fails, before any byte is transformed (the error is
\* the one of the hex validation), for every input with an odd number of
\* hex digits or with a character that is not a hex digit.
C7_MalformedHexFails ==
  (op = "decryptHexToText"
     /\ (Len(DigitsOf(arg)) % 2 = 1 \/ ~AllHexDigits(DigitsOf(arg)))) =>
    /\ ~result.ok
    /\ result.err \in {"InvalidHex", "OddLength"}

\* "0xeee" with a valid key
C7_Witness ==
  /\ op = "decryptHexToText"
  /\ arg = <<48, 120, 101, 101, 101>>
  /\ ~TrimIsEmpty(key)
  /\ result = Throw("InvalidHex")

\* C8: the 0x prefix is optional: for every even-length string h of hex
\* digits (one pair or more) and every valid key, decryptHexToText(h, key) succeeds and equals
\* decryptHexToText("0x" + h, key); likewise encryptHex and decryptHex.
C8_PrefixOptional ==
  (/\ op \in {"decryptHexToText", "encryptHex", "decryptHex"}
   /\ AllHexDigits(arg)
   /\ Len(arg) >= 2
   /\ Len(arg) % 2 = 0
   /\ ~TrimIsEmpty(key)) =>
    /\ result.ok
    /\ op = "decryptHexToText" =>
         result = decryptHexToText(<<48, 120>> \o arg, key)
    /\ op = "encryptHex" => result = encryptHex(<<48, 120>> \o arg, key)
    /\ op = "decryptHex" => result = decryptHex(<<48, 120>> \o arg, key)

\* ^(0x)?([0-9a-fA-F]{2})+$
MatchesHexPattern(h) ==
  /\ Len(DigitsOf(h)) >= 2
  /\ Len(DigitsOf(h)) % 2 = 0
  /\ AllHexDigits(DigitsOf(h))

\* C9: decryptHexToText accepts its hex argument if and only if it matches
\* ^(0x)?([0-9a-fA-F]{2})+$ ("0x" and "" are rejected), and an uppercase
\* payload decodes to the same text as its lowercase form.
C9_AcceptsExactlyPattern ==
  op = "decryptHexToText" =>
    /\ (result.err \notin {"InvalidHex", "OddLength"}) <=> MatchesHexPattern(arg)
    /\ MatchesHexPattern(arg) => result = decryptHexToText(toLowerCase(arg), key)

\* "0x" followed by one or more pairs of hex digits: a ciphertext as
\* encryptTextToHex renders it, in either case of the letters.
IsCiphertextHex(h) ==
  /\ startsWith0x(h)
  /\ Len(h) >= 4
  /\ Len(h) % 2 = 0
  /\ AllHexDigits(SubSeq(h, 3, Len(h)))

\* C10: decoding never fails because of the key's value: for every
\* well-formed hex ciphertext and every key that is non-empty after
\* trimming, decryptHexToText returns a text and raises no error.
C10_DecodeNeverFailsOnKey ==
  (op = "decryptHexToText" /\ IsCiphertextHex(arg) /\ ~TrimIsEmpty(key)) =>
    /\ result.ok
    /\ result.err = "none"

\* the decoded bytes are not valid UTF-8: the text holds U+FFFD
C10_Witness ==
  /\ op = "decryptHexToText"
  /\ IsCiphertextHex(arg)
  /\ ~TrimIsEmpty(key)
  /\ result.ok
  /\ \E i \in 1..Len(result.val) : result.val[i] = 65533

\* "0x" followed by pairs of hex digits: what normalizeHex lets through.
IsPrefixedHex(h) ==
  /\ startsWith0x(h)
  /\ Len(h) % 2 = 0
  /\ AllHexDigits(SubSeq(h, 3, Len(h)))

C17_SomeInputNotRestored ==
  op = "none" =>
    \E input \in ByteInputs, keyBytes \in KeyByteInputs :
      /\ Len(keyBytes) > 0
      /\ applyCipher(applyCipher(input, keyBytes), keyBytes) # input

\* C17 amended: applying the per-byte function, with the same key byte and
\* position, to every byte of the transform's output gives back the input
\* byte: the second application always restores the input.
C17_SecondPassRestores ==
  (op = "applyCipher" /\ Len(key) > 0) =>
    /\ Len(result.val) = Len(arg)
    /\ \A i \in 0..(Len(arg) - 1) :
         mixByte(result.val[i + 1], keyByteAt(key, i), i) = arg[i + 1]

\* the 16-byte input, changed by the first pass at every position tested
C17_Witness ==
  /\ op = "applyCipher"
  /\ Len(key) = 1
  /\ Len(arg) = 16
  /\ result.val[1] # arg[1]
  /\ result.val[16] # arg[16]
  /\ mixByte(result.val[16], keyByteAt(key, 15), 15) = arg[16]

\* The text transform computed from the raw bytes of the key.
RawKeyCipher(textBytes, rawKey) ==
  [j \in 1..Len(textBytes) |->
     XorOfBytes(XorOfBytes(textBytes[j], rawKey[((j - 1) % Len(rawKey)) + 1]),
                ((j - 1) * 31 + 165) % 256)]

\* C18: the keystream is the encoded bytes of the key exactly as given,
\* reused cyclically: whitespace around the key is part of it (" k" and "k"
\* give different ciphertexts) and key bytes at positions at or beyond the
\* input length do not influence the output.
C18_RawKeyIsKeystream ==
  (op = "encryptTextToHex" /\ result.ok) =>
    /\ result.val = bytesToHex(RawKeyCipher(encode(arg), encode(key)))
    /\ key = <<32, 107>> => result # encryptTextToHex(arg, <<107>>)
    /\ Len(encode(key)) > Len(encode(arg)) =>
         result.val =
           bytesToHex(RawKeyCipher(encode(arg),
                                   SubSeq(encode(key), 1, Len(encode(arg)))))

\* the key " k", shorter than the text
C18_Witness ==
  /\ op = "encryptTextToHex"
  /\ key = <<32, 107>>
  /\ Len(encode(arg)) > 2
  /\ result.ok
  /\ result # encryptTextToHex(arg, <<107>>)

\* C19: encryption and decryption are the same function: encryptHex and
\* decryptHex agree on every valid hex input and key, and encryptTextToHex
\* of a text is encryptHex of the hex of its encoded bytes.
C19_SameFunction ==
  /\ (op = "encryptHex" /\ IsPrefixedHex(arg) /\ ~TrimIsEmpty(key)) =>
       (result.ok /\ result = decryptHex(arg, key))
  /\ (op = "decryptHex" /\ IsPrefixedHex(arg) /\ ~TrimIsEmpty(key)) =>
       (result.ok /\ result = encryptHex(arg, key))
  /\ (op = "encryptTextToHex" /\ result.ok) =>
       result = encryptHex(bytesToHex(encode(arg)), key)

\* two bytes encrypted by the hex version
C19_Witness ==
  /\ op = "encryptHex"
  /\ arg = <<48, 120, 52, 52, 101, 101>>
  /\ key = <<107, 32>>
  /\ result.ok
  /\ result = decryptHex(arg, key)

\* C11: the result of an encode or decode call depends only on its two
\* arguments: after any sequence of earlier calls, successful or failed, by
\* whichever callers, a call with the arguments of an earlier call has the
\* outcome (the value or the error) of that earlier call.
C11_SameArgumentsSameOutcome ==
  (/\ op # "none"
   /\ memo.op = op
   /\ memo.arg = arg
   /\ memo.key = key) =>
    result = memo.result

\* a decode whose text ends in a cut sequence, repeated after a failed call
C11_Witness ==
  /\ op = "decryptHexToText"
  /\ memo.op = op
  /\ memo.arg = arg
  /\ memo.key = key
  /\ failedSince
  /\ arg = <<48, 120, 52, 101>>
  /\ key = <<32, 107>>
  /\ result = Ok(<<65533>>)

\* The lookup of the i-th transaction of the chain has ended and shows it;
\* fetchCall.key is the cipherKey it ran with.
LookedUp(i) ==
  /\ i \in 1..Len(chainTxs)
  /\ fetchCall.pc = "idle"
  /\ txInfo # Null
  /\ txInfo[1].hash = HashOf(i)

\* C12: when handleSendEncrypted has sent message m with key k and
\* handleFetchTx looks that transaction up while cipherKey is still k,
\* txDecrypted is m.
C12_LookupShowsSentMessage ==
  \A i \in 1..MaxTxs :
    (/\ LookedUp(i)
     /\ chainTxs[i].own
     /\ fetchCall.key = chainTxs[i].key) =>
      txDecrypted = chainTxs[i].message

\* The bytes that decryptHexToText hands to the decoder are not valid UTF-8.
PlainBytesInvalid(data, k) ==
  LET plainBytes == applyCipher(hexToBytes(normalizeHex(data).val),
                                buildKey(k).val)
      cps == utf8Decode(plainBytes, 1, 0, 0, 0, 128, 191)
  IN \E j \in 1..Len(cps) : cps[j] = -1

\* C13: after a lookup of a transaction that carries data, with a key that
\* is not empty, txDecrypted is the failure text exactly when the bytes
\* decoded with that key are not valid text, and is the decoded text in
\* every other case.
C13_FailureExactlyOnInvalidText ==
  \A i \in 1..MaxTxs :
    (/\ LookedUp(i)
     /\ chainTxs[i].data # EmptyData
     /\ buildKey(fetchCall.key).ok) =>
      IF PlainBytesInvalid(chainTxs[i].data, fetchCall.key)
        THEN txDecrypted = DecryptFailedText
        ELSE /\ txDecrypted # DecryptFailedText
             /\ txDecrypted = decryptHexToText(chainTxs[i].data,
                                               fetchCall.key).val

\* C15: once a wallet is connected, in every state where no balance
\* request is pending and the last one succeeded, the balance shown is the
\* balance of the address shown, whatever accountsChanged events came and
\* in whatever order the getBalance answers arrived.
C15_BalanceOfShownAddress ==
  (/\ address # <<>>
   /\ balanceCalls = <<>>
   /\ balanceSettled = "fulfilled") =>
    balance = Some(formatEther(balanceOf(address)))

\* C16: a readChainData call that ends updates latestBlock and chainId
\* together when getBlockNumber and getNetwork both succeeded; when either
\* failed it changes neither and sets an error message.
C16_BothOrNeither ==
  [][\A i \in 1..Len(readCalls) :
       (readCalls' = RemoveAt(readCalls, i)) =>
         IF readCalls[i].blockNumber = "ok" /\ readCalls[i].network = "ok"
           THEN /\ latestBlock' \in {Some(b) : b \in BlockNumbers}
                /\ chainId' \in {Some(c) : c \in ChainIds}
           ELSE /\ UNCHANGED <<latestBlock, chainId>>
                /\ error' # ""]_vars

\* a read failed after an earlier one had succeeded: the values of the
\* earlier one are still shown, with the error
C16_Witness ==
  /\ lastRead = "rejected"
  /\ ~isReading
  /\ readCalls = <<>>
  /\ latestBlock = Some(101)
  /\ chainId = Some(Mainnet)
  /\ error = EthersError

\* C20: a claim transaction is submitted only after getEnvelope, read in the
\* same invocation for the same envelope id, showed the envelope not
\* expired, not reclaimed, with slots and amount left, and claimed(id,
\* address) read false; an invocation whose check fails sets the status of
\* that check, ends, and submits nothing.
ClaimChecked(w) ==
  /\ w.info # Null
  /\ ~w.info[1].expired
  /\ ~w.info[1].reclaimed
  /\ w.info[1].remainingSlots # 0
  /\ w.info[1].remainingAmount # 0
  /\ w.alreadyClaimed = Some(FALSE)

FailedCheck(call) ==
  IF call.pc = "getEnvelope" /\ call.info # Null
    THEN IF call.info[1].expired THEN "envelope expired"
         ELSE IF call.info[1].reclaimed THEN "envelope reclaimed"
         ELSE IF call.info[1].remainingSlots = 0 THEN "envelope empty"
         ELSE IF call.info[1].remainingAmount = 0 THEN "envelope empty"
         ELSE ""
  ELSE IF call.pc = "claimed" /\ call.alreadyClaimed = Some(TRUE)
    THEN "already claimed"
  ELSE ""

\* The step is the continuation of the i-th invocation of handleClaim.
Resumed(i) ==
  \/ claimCalls' = RemoveAt(claimCalls, i)
  \/ /\ Len(claimCalls') = Len(claimCalls)
     /\ claimCalls'[i] # claimCalls[i]

ClaimStep ==
  /\ \A w \in writes' \ writes :
       /\ ClaimChecked(w)
       /\ \E i \in 1..Len(claimCalls) :
            /\ claimCalls[i].pc = "claimed"
            /\ w.id = claimCalls[i].id
            /\ w.user = claimCalls[i].user
            /\ w.info = claimCalls[i].info
            /\ w.alreadyClaimed = claimCalls[i].alreadyClaimed
  /\ \A i \in 1..Len(claimCalls) :
       (FailedCheck(claimCalls[i]) # "" /\ Resumed(i)) =>
         /\ status' = FailedCheck(claimCalls[i])
         /\ claimCalls' = RemoveAt(claimCalls, i)
         /\ writes' = writes

C20_ClaimOnlyAfterChecks ==
  /\ [](\A w \in writes : w.functionName = "claim" => ClaimChecked(w))
  /\ [][ClaimStep]_vars

C20_Witness ==
  /\ \E w \in writes : w.functionName = "claim" /\ w.id = 2
  /\ status = "envelope expired"
  /\ claimCalls = <<>>
  /\ writes # {}

\* C21: reclaimExpired is submitted only after getEnvelope, read in the same
\* invocation, showed the envelope expired, not reclaimed, with amount and
\* slots left; an invocation whose check fails sets one of the three
\* statuses (already reclaimed, not expired yet, nothing to reclaim), ends,
\* and submits nothing.
ReclaimChecked(w) ==
  /\ w.info # Null
  /\ w.info[1].expired
  /\ ~w.info[1].reclaimed
  /\ w.info[1].remainingAmount # 0
  /\ w.info[1].remainingSlots # 0

ReclaimStep ==
  /\ \A w \in writes' \ writes :
       /\ ReclaimChecked(w)
       /\ \E i \in 1..Len(reclaimCalls) :
            /\ reclaimCalls[i].pc = "getEnvelope"
            /\ w.id = reclaimCalls[i].id
            /\ w.info = reclaimCalls[i].info
  /\ \A i \in 1..Len(reclaimCalls) :
       ( /\ reclaimCalls[i].pc = "getEnvelope"
         /\ reclaimCalls[i].info # Null
         /\ ~ReclaimChecked(reclaimCalls[i])
         /\ \/ reclaimCalls' = RemoveAt(reclaimCalls, i)
            \/ /\ Len(reclaimCalls') = Len(reclaimCalls)
               /\ reclaimCalls'[i] # reclaimCalls[i] ) =>
         /\ status' \in {"envelope already reclaimed",
                         "envelope not expired yet", "nothing to reclaim"}
         /\ reclaimCalls' = RemoveAt(reclaimCalls, i)
         /\ writes' = writes

C21_ReclaimOnlyAfterChecks ==
  /\ [](\A w \in writes : w.functionName = "reclaimExpired" =>
          ReclaimChecked(w))
  /\ [][ReclaimStep]_vars

C21_Witness ==
  /\ \E w \in writes : w.functionName = "reclaimExpired" /\ w.id = 2
  /\ status = "nothing to reclaim"
  /\ reclaimCalls = <<>>

\* C22: createEnvelope is submitted only with a slot count that is a whole
\* number from 3 to 10; with any other slot input nothing is submitted.
WholeSlots(slots) ==
  slots.finite /\ ~slots.fraction /\ slots.whole >= 3 /\ slots.whole <= 10

C22_CreateOnlyWholeSlots ==
  \A w \in writes : w.functionName = "createEnvelope" => WholeSlots(w.slots)

\* C23: no contract write is submitted while the wallet is disconnected or
\* on a chain other than Sepolia, and a handler that runs in such a state
\* leaves error as it is.
OnSepolia == isConnected /\ chainId = Some(TARGET_CHAIN_ID)

GuardStatus ==
  /\ status' # status
  /\ status' \in {"connect the wallet first", "switch to Sepolia"}

C23_NoWriteOffSepolia ==
  [][~OnSepolia => (writes' = writes /\ (GuardStatus => error' = error))]_vars

\* C24: the toasts list holds no toast or one, and the one it holds is the
\* toast pushToast was last called with.
C24_AtMostOneToast ==
  /\ Len(toasts) <= 1
  /\ Len(toasts) = 1 => lastToast = Some(toasts[1])

C24_Witness ==
  /\ Len(toasts) = 1
  /\ toasts[1].tone = "error"
  /\ statusShown # ""
  /\ timers = <<toasts[1].id>>

====
